---- MODULE Spec2Model ----
(***************************************************************************)
(* Verification model of the Bizpaysol ACH core:                           *)
(*   - BusinessDayService  (backend/src/services/businessDayService.ts)    *)
(*   - NACHAService        (backend/src/services/nachaService.ts)          *)
(*   - EncryptionService   (backend/src/services/encryptionService.ts)     *)
(* Each service has its own specification (SpecCal, Spec, SpecEnc); the    *)
(* variables of the other services stay at their initial values.           *)
(***************************************************************************)
EXTENDS Integers, Sequences, FiniteSets, TLC

VARIABLES
  \* BusinessDayService
  currentYear,        \* new Date().getFullYear() at construction
  federalHolidays,    \* string[] of 'YYYY-MM-DD'
  abdPc,              \* position inside addBusinessDays: "idle" | "loop" | "done"
  abdDate,            \* argument date (day number)
  abdDays,            \* argument days
  abdResult,          \* local result (a moment, as a day number)
  abdAdded,           \* local addedDays
  bdOp,               \* the other method called: "none" | "isBusinessDay" |
                      \* "getNextBusinessDay" | "getPreviousBusinessDay"
  bdPc,               \* position inside it: "idle" | "loop" | "done"
  bdDate,             \* argument date (day number)
  bdResult,           \* local nextDay / prevDay (day number), or what isBusinessDay returned
  \* NACHAService
  config,             \* NACHAConfig
  fileSequenceNumber, \* private fileSequenceNumber
  transactions,       \* argument transactions of generateNACHAFile
  effectiveDate,      \* argument effectiveDate (day number)
  fileType,           \* argument fileType: "DR" | "CR"
  fileLines,          \* the lines of the content generated last (<<>>: none yet)
  encryptionService,  \* private encryptionService?: <<>> (undefined) or <<its key>>
  \* POST /generate requests on the one NACHAService of the process
  reqPc,              \* per request: "idle" | "saving" (awaiting the database) |
                      \* "done" (201) | "failed" (500)
  reqHeader,          \* per request: the file header of the file it generated ("": none)
  incrementCalls,     \* how many times incrementSequenceNumber has been called
  \* clients of NACHAService
  nachaFile,          \* the NACHAFile generated last (<<>>: none yet)
  lastCall,           \* the call of a validating or reading method made last
  \* EncryptionService
  key,                \* private readonly key
  plaintext,          \* the content sealed last
  sealed,             \* the envelope encryptNACHAFile returned ("": none yet)
  envelope,           \* the stored envelope, as it is now
  outcome,            \* what decryptNACHAFile did when called last
  \* the process (backend/src/index.ts) and its HTTP API
  processEnv,         \* process.env: which of the required values are set
  boot,               \* position in index.ts: "starting" | "encryption" (EncryptionService
                      \* constructed) | "listening" | "crashed"
  httpReq,            \* the HTTP request being served and its response
  dbStatus,           \* table transactions: status of each transaction id
  reqSelected,        \* per generate request: the pending transactions it read
  savedFiles          \* table nacha_files: the transaction ids of each saved file

abdVars == <<abdPc, abdDate, abdDays, abdResult, abdAdded>>

bdVars == <<bdOp, bdPc, bdDate, bdResult>>

calVars == <<currentYear, federalHolidays, abdVars, bdVars>>

seqVars == <<reqPc, reqHeader, incrementCalls>>

clientVars == <<nachaFile, lastCall>>

nachaVars ==
  <<config, fileSequenceNumber, transactions, effectiveDate, fileType, fileLines,
    encryptionService, seqVars, clientVars>>

encVars == <<key, plaintext, sealed, envelope, outcome>>

appVars == <<processEnv, boot, httpReq, dbStatus, reqSelected, savedFiles>>

vars == <<calVars, nachaVars, encVars, appVars>>

(***************************************************************************)
(* Strings                                                                 *)
(***************************************************************************)
Min(a, b) == IF a < b THEN a ELSE b

Max(a, b) == IF a > b THEN a ELSE b

RECURSIVE Rep(_, _)
\* String.prototype.repeat
Rep(c, n) ==
  IF n <= 0 THEN "" ELSE IF n = 1 THEN c ELSE Rep(c, n \div 2) \o Rep(c, n - n \div 2)

\* String.prototype.substring(start, end) for 0 <= start: 0-based, end exclusive,
\* clamped to the length of the string
Substring(s, start, end) ==
  LET e == Min(end, Len(s))
  IN  IF start >= e THEN "" ELSE SubSeq(s, start + 1, e)

\* str.padStart(length, padChar)
PadStart(str, length, padChar) == Rep(padChar, length - Len(str)) \o str

\* str.padEnd(length, padChar)
PadEnd(str, length, padChar) == str \o Rep(padChar, length - Len(str))

(***************************************************************************)
(* moment: a moment is modelled by its calendar day, the number of days    *)
(* since 0001-01-01 (proleptic Gregorian); the time of day plays no part   *)
(* in any operation of BusinessDayService.                                 *)
(***************************************************************************)
IsLeap(y) == y % 4 = 0 /\ (y % 100 # 0 \/ y % 400 = 0)

DaysBeforeYear(y) == 365 * (y - 1) + (y - 1) \div 4 - (y - 1) \div 100 + (y - 1) \div 400

DaysInMonth(y, m) ==
  IF m = 2 THEN (IF IsLeap(y) THEN 29 ELSE 28)
  ELSE IF m \in {4, 6, 9, 11} THEN 30 ELSE 31

RECURSIVE DaysBeforeMonth(_, _)
DaysBeforeMonth(y, m) == IF m <= 1 THEN 0 ELSE DaysBeforeMonth(y, m - 1) + DaysInMonth(y, m - 1)

\* moment([year, month0, day]): month0 is 0-based as in JavaScript
Moment(year, month0, day) == DaysBeforeYear(year) + DaysBeforeMonth(year, month0 + 1) + (day - 1)

\* moment#year()
YearOf(n) ==
  LET y == (400 * n) \div 146097 + 1
  IN  IF DaysBeforeYear(y + 1) <= n THEN y + 1
      ELSE IF DaysBeforeYear(y) > n THEN y - 1 ELSE y

\* moment#month() + 1
MonthOf(n) ==
  LET y == YearOf(n)
      doy == n - DaysBeforeYear(y)
  IN  CHOOSE m \in 1..12 : DaysBeforeMonth(y, m) <= doy /\ doy < DaysBeforeMonth(y, m + 1)

\* moment#date(): the day of the month
DateOf(n) == n - DaysBeforeYear(YearOf(n)) - DaysBeforeMonth(YearOf(n), MonthOf(n)) + 1

\* moment#day(): 0 = Sunday .. 6 = Saturday (0001-01-01 is a Monday)
Day(n) == (n + 1) % 7

\* moment#day(d) for d in 0..6: the day d of the Sunday-to-Saturday week holding n
SetDay(n, d) == n - Day(n) + d

\* moment#format('YYYY-MM-DD')
FormatYMD(n) ==
  PadStart(ToString(YearOf(n)), 4, "0") \o "-" \o PadStart(ToString(MonthOf(n)), 2, "0")
    \o "-" \o PadStart(ToString(DateOf(n)), 2, "0")

\* moment#format('YYMMDD')
FormatYYMMDD(n) ==
  PadStart(ToString(YearOf(n) % 100), 2, "0") \o PadStart(ToString(MonthOf(n)), 2, "0")
    \o PadStart(ToString(DateOf(n)), 2, "0")

(***************************************************************************)
(* Numbers.  A JavaScript number holding an integer below 2^53 is exact.   *)
(* The entry hash may pass the 32-bit integers of the model checker, so it *)
(* is kept in two limbs <<hi, lo>> of value hi * 10^8 + lo; a trace number *)
(* is written digit group by digit group in the same way.  An amount is a  *)
(* decimal number of currency units with three decimal places, held as the *)
(* integer number of thousandths (100.00 is 100000), whose third decimal   *)
(* digit is never 5, so that decimal and binary rounding agree.            *)
(***************************************************************************)
Limb == 10^8

\* the value of a decimal digit character
DigitVal(c) == CHOOSE d \in 0..9 : ToString(d) = c

RECURSIVE ParseInt(_)
\* parseInt of a string of decimal digits
ParseInt(s) ==
  IF s = "" THEN 0
  ELSE ParseInt(SubSeq(s, 1, Len(s) - 1)) * 10 + DigitVal(SubSeq(s, Len(s), Len(s)))

\* sum + n for a two-limb sum and a number n
BigAdd(sum, n) ==
  LET t == sum[2] + n
  IN  <<sum[1] + t \div Limb, t % Limb>>

\* x % 10000000000 for a two-limb x (10000000000 = 100 * 10^8)
BigMod10e10(x) == <<x[1] % 100, x[2]>>

\* Number.prototype.toString of a two-limb integer
BigToString(x) ==
  IF x[1] = 0 THEN ToString(x[2])
  ELSE ToString(x[1]) \o PadStart(ToString(x[2]), 8, "0")

\* Math.round(amount * 100) for an amount in thousandths
RoundToCents(amount) == (amount + 5) \div 10

(***************************************************************************)
(* NACHAService: pure parts                                                *)
(***************************************************************************)
\* mutant of padLeft: nothing is added
padLeft_NoPad(str, length, padChar) == Substring(str, 0, length)

padLeft(str, length, padChar) == Substring(PadStart(str, length, padChar), 0, length)

padRight(str, length, padChar) == Substring(PadEnd(str, length, padChar), 0, length)

\* parseInt(routingNumber.substring(0, 8))
RoutingPrefix(routingNumber) == ParseInt(Substring(routingNumber, 0, 8))

\* getTraceNumber().toString(), rnd being Math.floor(Math.random() * 10000000)
getTraceNumber(cfg, rnd) ==
  LET dfi == RoutingPrefix(cfg.originatingDFI)
  IN  IF dfi = 0 THEN ToString(rnd)
      ELSE ToString(dfi) \o PadStart(ToString(rnd), 7, "0")

\* now: [date |-> day number, time |-> 'HHmm'], the instant of the call
\* incrementSequenceNumber(): the new value of fileSequenceNumber; mutant without the wrap
incrementSequenceNumber_NoWrap(n) == n + 1

\* incrementSequenceNumber(): the new value of fileSequenceNumber
incrementSequenceNumber(n) == IF n + 1 > 9 THEN 1 ELSE n + 1

\* mutant of generateFileHeader: the modifier is that of the file to come
generateFileHeader_NextModifier(cfg, seqNo, now) ==
  "1" \o "01"
    \o padLeft(cfg.immediateDestination, 10, " ")
    \o padLeft(cfg.immediateOrigin, 10, " ")
    \o FormatYYMMDD(now.date)
    \o now.time
    \o padLeft(ToString(seqNo + 1), 1, "A")
    \o "094" \o "10" \o "1"
    \o padRight(cfg.immediateDestination, 23, " ")
    \o padRight(cfg.immediateOrigin, 23, " ")
    \o padRight("", 8, " ")

generateFileHeader(cfg, seqNo, now) ==
  "1" \o "01"
    \o padLeft(cfg.immediateDestination, 10, " ")
    \o padLeft(cfg.immediateOrigin, 10, " ")
    \o FormatYYMMDD(now.date)
    \o now.time
    \o padLeft(ToString(seqNo), 1, "A")
    \o "094" \o "10" \o "1"
    \o padRight(cfg.immediateDestination, 23, " ")
    \o padRight(cfg.immediateOrigin, 23, " ")
    \o padRight("", 8, " ")

generateBatchHeader(cfg, effDate, type) ==
  LET serviceClassCode == IF type = "DR" THEN "225" ELSE "220"
  IN  "5" \o serviceClassCode
        \o padRight(cfg.companyName, 16, " ")
        \o padRight(cfg.companyDiscretionaryData, 20, " ")
        \o cfg.companyId
        \o "CCD"
        \o padRight(type \o " PAYMENT", 10, " ")
        \o padRight("", 6, " ")
        \o FormatYYMMDD(effDate)
        \o padRight("", 3, " ")
        \o "1"
        \o Substring(cfg.originatingDFI, 0, 8)
        \o "0000001"

\* mutant of generateEntryDetail: the name is always that of the debit side
generateEntryDetail_DebitName(cfg, tx, type, rnd) ==
  LET transactionCode == IF type = "DR" THEN "27" ELSE "22"
      routingNumber == IF type = "DR" THEN tx.drRoutingNumber ELSE tx.crRoutingNumber
      accountNumber == IF type = "DR" THEN tx.drAccountNumber ELSE tx.crAccountNumber
      individualId == IF type = "DR" THEN tx.drId ELSE tx.crId
      amount == RoundToCents(tx.amount)
  IN  "6" \o transactionCode
        \o Substring(routingNumber, 0, 8)
        \o Substring(routingNumber, 8, 9)
        \o padLeft(accountNumber, 17, " ")
        \o padLeft(ToString(amount), 10, "0")
        \o padLeft(individualId, 15, " ")
        \o padRight(tx.drName, 22, " ")
        \o padRight("", 2, " ")
        \o "0"
        \o padLeft(getTraceNumber(cfg, rnd), 15, "0")

generateEntryDetail(cfg, tx, type, rnd) ==
  LET transactionCode == IF type = "DR" THEN "27" ELSE "22"
      routingNumber == IF type = "DR" THEN tx.drRoutingNumber ELSE tx.crRoutingNumber
      accountNumber == IF type = "DR" THEN tx.drAccountNumber ELSE tx.crAccountNumber
      individualName == IF type = "DR" THEN tx.drName ELSE tx.crName
      individualId == IF type = "DR" THEN tx.drId ELSE tx.crId
      amount == RoundToCents(tx.amount)
  IN  "6" \o transactionCode
        \o Substring(routingNumber, 0, 8)
        \o Substring(routingNumber, 8, 9)
        \o padLeft(accountNumber, 17, " ")
        \o padLeft(ToString(amount), 10, "0")
        \o padLeft(individualId, 15, " ")
        \o padRight(individualName, 22, " ")
        \o padRight("", 2, " ")
        \o "0"
        \o padLeft(getTraceNumber(cfg, rnd), 15, "0")

RECURSIVE AmountsIn(_, _, _)
\* the sum of the amounts of txs[lo..hi] (integer addition: the order plays no part)
AmountsIn(txs, lo, hi) ==
  IF lo > hi THEN 0
  ELSE IF lo = hi THEN txs[lo].amount
  ELSE AmountsIn(txs, lo, (lo + hi) \div 2) + AmountsIn(txs, (lo + hi) \div 2 + 1, hi)

\* transactions.reduce((sum, tx) => sum + tx.amount, 0)
TotalAmount(txs) == AmountsIn(txs, 1, Len(txs))

\* Math.round(totalAmount * 100)
TotalAmountCents(txs) == RoundToCents(TotalAmount(txs))

RECURSIVE BigSum(_, _, _)
\* the sum of the numbers f[lo..hi] below 10^8, in two limbs (integer addition: the
\* order plays no part)
BigSum(f, lo, hi) ==
  IF lo > hi THEN <<0, 0>>
  ELSE IF lo = hi THEN <<0, f[lo]>>
  ELSE LET a == BigSum(f, lo, (lo + hi) \div 2)
           b == BigSum(f, (lo + hi) \div 2 + 1, hi)
       IN  BigAdd(<<a[1] + b[1], a[2]>>, b[2])

\* the reduce of generateBatchControl: the sum of the first 8 digits of the routing
\* numbers of the side of the file
BatchEntryHash(txs, type) ==
  BigSum([i \in 1..Len(txs) |->
            RoutingPrefix(IF type = "DR" THEN txs[i].drRoutingNumber
                                         ELSE txs[i].crRoutingNumber)],
         1, Len(txs))

generateBatchControl(cfg, txs, type) ==
  LET serviceClassCode == IF type = "DR" THEN "225" ELSE "220"
      entryCount == Len(txs)
      totalAmountCents == TotalAmountCents(txs)
      entryHash == BatchEntryHash(txs, type)
  IN  "8" \o serviceClassCode
        \o padLeft(ToString(entryCount), 6, "0")
        \o padLeft(BigToString(BigMod10e10(entryHash)), 10, "0")
        \o padLeft(ToString(totalAmountCents), 12, "0")
        \o padLeft("0", 12, "0")
        \o cfg.companyId
        \o padRight("", 19, " ")
        \o padRight("", 6, " ")
        \o Substring(cfg.originatingDFI, 0, 8)
        \o "0000001"

\* mutant of FileEntryHash: the credit routing numbers are left out
FileEntryHash_DebitOnly(txs) ==
  BigSum([i \in 1..(2 * Len(txs)) |->
            IF i % 2 = 1 THEN RoutingPrefix(txs[(i + 1) \div 2].drRoutingNumber) ELSE 0],
         1, 2 * Len(txs))

\* the reduce of generateFileControl: sum + drHash + crHash over the transactions
FileEntryHash(txs) ==
  BigSum([i \in 1..(2 * Len(txs)) |->
            IF i % 2 = 1 THEN RoutingPrefix(txs[(i + 1) \div 2].drRoutingNumber)
                         ELSE RoutingPrefix(txs[i \div 2].crRoutingNumber)],
         1, 2 * Len(txs))

\* mutant of BlockCount: Math.floor in place of Math.ceil
BlockCount_Floor(txs) == (5 + Len(txs)) \div 10

\* Math.ceil((5 + transactions.length) / 10)
BlockCount(txs) == (5 + Len(txs) + 9) \div 10

generateFileControl(txs) ==
  LET batchCount == 1
      blockCount == BlockCount(txs)
      entryCount == Len(txs)
      totalAmountCents == TotalAmountCents(txs)
      entryHash == FileEntryHash(txs)
  IN  "9" \o padLeft(ToString(batchCount), 6, "0")
        \o padLeft(ToString(blockCount), 6, "0")
        \o padLeft(ToString(entryCount), 8, "0")
        \o padLeft(BigToString(BigMod10e10(entryHash)), 10, "0")
        \o padLeft(ToString(totalAmountCents), 12, "0")
        \o padLeft(ToString(totalAmountCents), 12, "0")
        \o padRight("", 39, " ")

\* mutant of PadToBlock: the test paddingNeeded !== 10 is left out
PadToBlock_NoGuard(lines) ==
  LET paddingNeeded == 10 - (Len(lines) % 10)
  IN  lines \o [i \in 1..paddingNeeded |-> Rep("9", 94)]

\* the padding of generateFileContent: filler lines up to a multiple of 10 records
PadToBlock(lines) ==
  LET recordCount == Len(lines)
      paddingNeeded == 10 - (recordCount % 10)
  IN  IF paddingNeeded # 10
      THEN lines \o [i \in 1..paddingNeeded |-> Rep("9", 94)]
      ELSE lines

\* mutant of generateFileContent: the entries are emitted last transaction first
generateFileContent_Reversed(cfg, seqNo, now, txs, effDate, type, rnds) ==
  PadToBlock(
    <<generateFileHeader(cfg, seqNo, now), generateBatchHeader(cfg, effDate, type)>>
      \o [i \in 1..Len(txs) |->
            generateEntryDetail(cfg, txs[Len(txs) + 1 - i], type, rnds[Len(txs) + 1 - i])]
      \o <<generateBatchControl(cfg, txs, type), generateFileControl(txs)>>)

\* the lines of generateFileContent (the content is lines.join('\n')); rnds[i] is the
\* random number drawn for the trace number of the i-th entry
generateFileContent(cfg, seqNo, now, txs, effDate, type, rnds) ==
  PadToBlock(
    <<generateFileHeader(cfg, seqNo, now), generateBatchHeader(cfg, effDate, type)>>
      \o [i \in 1..Len(txs) |-> generateEntryDetail(cfg, txs[i], type, rnds[i])]
      \o <<generateBatchControl(cfg, txs, type), generateFileControl(txs)>>)

(***************************************************************************)
(* NACHAService: configurations and inputs                                 *)
(***************************************************************************)
MaxLen == 2

\* requests that may overlap
MaxRequests == 2

\* calls of incrementSequenceNumber followed
MaxIncrements == 10

Requests == 1..MaxRequests

MaxBulk == 101

\* the configuration of the repository's own example (ACH_COMPANY_ID=1234567890)
MockConfig ==
  [ immediateDestination |-> "123456789",
    immediateOrigin |-> "987654321",
    companyName |-> "TEST COMPANY",
    companyId |-> "1234567890",
    companyDiscretionaryData |-> "",
    originatingDFI |-> "987654321" ]

\* the environment is read unchecked: a 9-digit company id (a bare EIN)
Configs == { MockConfig, [MockConfig EXCEPT !.companyId = "123456789"] }

MockTransaction ==
  [ id |-> "tx-123",
    drRoutingNumber |-> "123456789", drAccountNumber |-> "1234567890",
    drId |-> "DR001", drName |-> "John Doe",
    crRoutingNumber |-> "987654321", crAccountNumber |-> "0987654321",
    crId |-> "CR001", crName |-> "Jane Smith",
    amount |-> 100000 ]

TxPool ==
  { MockTransaction,
    [MockTransaction EXCEPT !.id = "tx-2", !.drRoutingNumber = "999999990",
       !.crRoutingNumber = "999999981", !.amount = 1004],
    [MockTransaction EXCEPT !.id = "tx-3", !.drRoutingNumber = "021000021",
       !.crRoutingNumber = "000000019", !.amount = 1234562] }

\* the lengths of the longer lists: a file of exactly one block, and a file whose
\* routing sums pass 10,000,000,000
BulkLens == {6, MaxBulk}

\* every list of at most MaxLen transactions, and longer lists of one transaction
\* repeated
TxLists ==
  UNION {[1..n -> TxPool] : n \in 0..MaxLen}
    \cup {[i \in 1..n |-> tx] : n \in BulkLens, tx \in TxPool}

RandPool == {7, 9999999}

\* the random numbers drawn during one generation of n entries
RandSeqs(n) ==
  IF n <= MaxLen THEN [1..n -> RandPool] ELSE {[i \in 1..n |-> r] : r \in RandPool}

NowPool == { [date |-> Moment(2024, 8, 17), time |-> "0930"] }

EffectiveDates == { Moment(2024, 8, 17) }

\* the values of process.env that index.ts hands to the two constructors
EnvNames ==
  { "ENCRYPTION_KEY", "ACH_IMMEDIATE_DESTINATION", "ACH_IMMEDIATE_ORIGIN",
    "ACH_COMPANY_NAME", "ACH_COMPANY_ID" }

\* no HTTP request was received
NoRequest == [stage |-> "none"]

\* index.ts ran to app.listen with every required value set; no request was received,
\* the tables are empty
AppStarted ==
  /\ processEnv = [n \in EnvNames |-> TRUE]
  /\ boot = "listening"
  /\ httpReq = NoRequest
  /\ dbStatus = <<>>
  /\ reqSelected = [r \in Requests |-> {}]
  /\ savedFiles = <<>>

\* a NACHAService constructed with cfg, before any call
NachaConstructed(cfg, svc) ==
  /\ config = cfg
  /\ encryptionService = svc
  /\ fileSequenceNumber = 1
  /\ fileLines = <<>>
  /\ reqPc = [r \in Requests |-> "idle"]
  /\ reqHeader = [r \in Requests |-> ""]
  /\ incrementCalls = 0
  /\ nachaFile = <<>>
  /\ lastCall = [op |-> "none"]

\* the arguments of the generation request at hand
NachaRequest(txs, effDate, type) ==
  /\ transactions = txs
  /\ effectiveDate = effDate
  /\ fileType = type

(***************************************************************************)
(* EncryptionService, scaled down.  AES-256-CBC over 16-byte blocks is     *)
(* modelled by a CBC cipher over blocks of BlockLen bytes: PKCS#7 padding, *)
(* chaining by XOR and a keyed permutation of the blocks (a Feistel        *)
(* network) are kept.  Bytes are the 256 byte values, written as two       *)
(* hexadecimal digits; text is ASCII, one byte a character.  The JSON text *)
(* of the payload {content, metadata: {transactionIds, checksum}} is the   *)
(* three strings between braces, separated by commas, with JSON's          *)
(* backslash escapes; the other metadata (type, effectiveDate, recordCount,*)
(* timestamp, version) is, like transactionIds, not covered by the         *)
(* checksum.  SHA-256 is modelled as collision free: the digest is an      *)
(* injective recoding of the text.                                         *)
(***************************************************************************)
BlockLen == 2

ByteCount == 256

\* the printable ASCII characters of codes 32..95
Printable ==
  " !\"#$%&'()*+,-./0123456789:;<=>?@ABCDEFGHIJKLMNOPQRSTUVWXYZ[\\]^_"

\* and those of codes 97..125
PrintableLower == "abcdefghijklmnopqrstuvwxyz{|}"

\* s.charAt(i), 1-based
CharAt(s, i) == SubSeq(s, i, i)

\* the character a byte decodes to: the newline, one control character for all other
\* control codes (JSON.parse treats them alike), the printable characters, and "~" for
\* the grave accent, the tilde, and the replacement character the decoder puts for
\* the bytes that are no ASCII text (no text sealed holds them)
CodeChars ==
  [b \in 0..(ByteCount - 1) |->
     IF b = 10 THEN "\n"
     ELSE IF b < 32 THEN "\t"
     ELSE IF b < 32 + Len(Printable) THEN CharAt(Printable, b - 31)
     ELSE IF 97 <= b /\ b < 97 + Len(PrintableLower) THEN CharAt(PrintableLower, b - 96)
     ELSE "~"]

\* control characters: JSON.parse rejects them unescaped
ControlChars == {"\t", "\n"}

\* characters of JSON's structure
StructChars == {"{", "}", "\"", ",", "\\"}

\* the byte of each character of a text
CharCodes ==
  [c \in {CodeChars[b] : b \in 0..(ByteCount - 1)} |->
     IF c = "\t" THEN 9
     ELSE IF c = "~" THEN 126
     ELSE CHOOSE b \in 0..(ByteCount - 1) : CodeChars[b] = c]

CharCode(c) == CharCodes[c]

\* Buffer.from(text, 'utf8') as a sequence of bytes
Utf8Encode(text) == [i \in 1..Len(text) |-> CharCode(CharAt(text, i))]

RECURSIVE Utf8DecodeRange(_, _, _)
Utf8DecodeRange(bytes, lo, hi) ==
  IF lo > hi THEN ""
  ELSE IF lo = hi THEN CodeChars[bytes[lo]]
  ELSE Utf8DecodeRange(bytes, lo, (lo + hi) \div 2)
         \o Utf8DecodeRange(bytes, (lo + hi) \div 2 + 1, hi)

\* buffer.toString('utf8')
Utf8Decode(bytes) == Utf8DecodeRange(bytes, 1, Len(bytes))

HexDigits == "0123456789abcdef"

UpperHexDigits == "0123456789ABCDEF"

\* the value of each hexadecimal digit, of either case
HexVals ==
  [c \in {CharAt(HexDigits, i) : i \in 1..16} \cup {CharAt(UpperHexDigits, i) : i \in 1..16} |->
     CHOOSE v \in 0..15 : CharAt(HexDigits, v + 1) = c \/ CharAt(UpperHexDigits, v + 1) = c]

\* the value of a hexadecimal digit of either case, -1 for any other character
HexVal(c) == IF c \in DOMAIN HexVals THEN HexVals[c] ELSE -1

RECURSIVE ToHexRange(_, _, _)
ToHexRange(bytes, lo, hi) ==
  IF lo > hi THEN ""
  ELSE IF lo = hi
  THEN CharAt(HexDigits, (bytes[lo] \div 16) + 1) \o CharAt(HexDigits, (bytes[lo] % 16) + 1)
  ELSE ToHexRange(bytes, lo, (lo + hi) \div 2) \o ToHexRange(bytes, (lo + hi) \div 2 + 1, hi)

\* buffer.toString('hex')
ToHex(bytes) == ToHexRange(bytes, 1, Len(bytes))

\* Buffer.from(str, 'hex'): two digits a byte; decoding stops at the first pair that
\* holds a character that is no digit, and a last digit without its pair is dropped
FromHex(str) ==
  LET pairs == Len(str) \div 2
      bad == {i \in 1..pairs : HexVal(CharAt(str, 2 * i - 1)) = -1 \/ HexVal(CharAt(str, 2 * i)) = -1}
      n == IF bad = {} THEN pairs ELSE (CHOOSE i \in bad : \A j \in bad : i <= j) - 1
  IN  [i \in 1..n |-> 16 * HexVal(CharAt(str, 2 * i - 1)) + HexVal(CharAt(str, 2 * i))]

RECURSIVE Xor(_, _)
\* bitwise exclusive or of two bytes
Xor(a, b) ==
  IF a = 0 THEN b
  ELSE IF b = 0 THEN a
  ELSE ((a + b) % 2) + 2 * Xor(a \div 2, b \div 2)

XorBlock(x, y) == [i \in 1..BlockLen |-> Xor(x[i], y[i])]

\* the key derived by scryptSync from the configured secret: the round constants of the
\* block cipher
DerivedKey == <<113, 58, 201>>

\* the key derived from another secret
OtherKey == <<9, 240, 77>>

\* the round function of the block cipher
RoundF(c, v) == (v * v + 5 * v + c) % ByteCount

RECURSIVE EncryptRounds(_, _, _)
\* rounds i.. of the Feistel network on the block <<left, right>>
EncryptRounds(k, block, i) ==
  IF i > Len(k) THEN block
  ELSE EncryptRounds(k, <<block[2], (block[1] + RoundF(k[i], block[2])) % ByteCount>>, i + 1)

RECURSIVE DecryptRounds(_, _, _)
\* the rounds i..1 undone
DecryptRounds(k, block, i) ==
  IF i < 1 THEN block
  ELSE DecryptRounds(k, <<(block[2] + ByteCount - RoundF(k[i], block[1])) % ByteCount, block[1]>>,
                     i - 1)

\* the block cipher and its inverse
EncryptBlock(k, block) == EncryptRounds(k, block, 1)

DecryptBlock(k, block) == DecryptRounds(k, block, Len(k))

\* PKCS#7 padding
Pad(bytes) ==
  LET n == BlockLen - (Len(bytes) % BlockLen)
  IN  bytes \o [i \in 1..n |-> n]

\* the padding is well formed
PadOk(bytes) ==
  /\ Len(bytes) >= 1
  /\ LET n == bytes[Len(bytes)]
     IN  /\ 1 <= n /\ n <= BlockLen /\ n <= Len(bytes)
         /\ \A i \in (Len(bytes) - n + 1)..Len(bytes) : bytes[i] = n

Unpad(bytes) == SubSeq(bytes, 1, Len(bytes) - bytes[Len(bytes)])

\* block number i of bytes
BlockAt(bytes, i) == SubSeq(bytes, (i - 1) * BlockLen + 1, i * BlockLen)

RECURSIVE CbcEncryptRange(_, _, _, _, _)
\* the cipher blocks lo..hi, prev being the cipher block before block lo
CbcEncryptRange(k, prev, bytes, lo, hi) ==
  IF lo > hi THEN <<>>
  ELSE IF lo = hi THEN EncryptBlock(k, XorBlock(BlockAt(bytes, lo), prev))
  ELSE LET mid == (lo + hi) \div 2
           left == CbcEncryptRange(k, prev, bytes, lo, mid)
       IN  left \o CbcEncryptRange(k, BlockAt(left, mid - lo + 1), bytes, mid + 1, hi)

\* cipher.update + cipher.final on padded bytes
CbcEncrypt(k, iv, bytes) == CbcEncryptRange(k, iv, bytes, 1, Len(bytes) \div BlockLen)

RECURSIVE CbcDecryptRange(_, _, _, _, _)
CbcDecryptRange(k, iv, bytes, lo, hi) ==
  IF lo > hi THEN <<>>
  ELSE IF lo = hi
  THEN XorBlock(DecryptBlock(k, BlockAt(bytes, lo)), IF lo = 1 THEN iv ELSE BlockAt(bytes, lo - 1))
  ELSE CbcDecryptRange(k, iv, bytes, lo, (lo + hi) \div 2)
         \o CbcDecryptRange(k, iv, bytes, (lo + hi) \div 2 + 1, hi)

\* decipher.update + decipher.final before the padding is taken off
CbcDecrypt(k, iv, bytes) == CbcDecryptRange(k, iv, bytes, 1, Len(bytes) \div BlockLen)

\* the body of a JSON string for one character
EscapeChar(c) ==
  IF c = "\n" THEN "\\n"
  ELSE IF c = "\t" THEN "\\t"
  ELSE IF c \in StructChars THEN "\\" \o c
  ELSE c

RECURSIVE JsonEscapeRange(_, _, _)
JsonEscapeRange(str, lo, hi) ==
  IF lo > hi THEN ""
  ELSE IF lo = hi THEN EscapeChar(CharAt(str, lo))
  ELSE JsonEscapeRange(str, lo, (lo + hi) \div 2) \o JsonEscapeRange(str, (lo + hi) \div 2 + 1, hi)

\* the body of a JSON string
JsonEscape(str) == JsonEscapeRange(str, 1, Len(str))

\* JSON.stringify(fileData)
JsonStringify(fileData) ==
  "{" \o JsonEscape(fileData.content) \o "," \o JsonEscape(fileData.metadata.transactionIds)
      \o "," \o JsonEscape(fileData.metadata.checksum) \o "}"

\* the parser before the first character after the opening brace
ScanStart == [ok |-> TRUE, esc |-> FALSE, closed |-> FALSE, cur |-> "", fields |-> <<>>]

\* the parser after character c: ok = FALSE stands for a SyntaxError
ScanChar(st, c) ==
  IF ~st.ok THEN st
  ELSE IF st.closed THEN [st EXCEPT !.ok = FALSE]
  ELSE IF st.esc THEN
    IF c = "n" THEN [st EXCEPT !.esc = FALSE, !.cur = @ \o "\n"]
    ELSE IF c = "t" THEN [st EXCEPT !.esc = FALSE, !.cur = @ \o "\t"]
    ELSE IF c \in StructChars THEN [st EXCEPT !.esc = FALSE, !.cur = @ \o c]
    ELSE [st EXCEPT !.ok = FALSE]
  ELSE IF c = "\\" THEN [st EXCEPT !.esc = TRUE]
  ELSE IF c = "}" THEN [st EXCEPT !.closed = TRUE, !.fields = Append(@, st.cur), !.cur = ""]
  ELSE IF c = "," THEN [st EXCEPT !.fields = Append(@, st.cur), !.cur = ""]
  ELSE IF c \in ControlChars \/ c \in StructChars THEN [st EXCEPT !.ok = FALSE]
  ELSE [st EXCEPT !.cur = @ \o c]

RECURSIVE JsonScan(_, _, _, _)
\* the parser after the characters lo..hi of text
JsonScan(st, text, lo, hi) ==
  IF lo > hi THEN st
  ELSE IF lo = hi THEN ScanChar(st, CharAt(text, lo))
  ELSE LET left == JsonScan(st, text, lo, (lo + hi) \div 2)
       IN  IF ~left.ok THEN left ELSE JsonScan(left, text, (lo + hi) \div 2 + 1, hi)

\* JSON.parse(text): <<fileData>>, or <<>> for a SyntaxError
JsonParse(text) ==
  IF Len(text) < 1 \/ CharAt(text, 1) # "{" THEN <<>>
  ELSE LET st == JsonScan(ScanStart, text, 2, Len(text))
       IN  IF ~st.ok \/ ~st.closed \/ Len(st.fields) # 3 THEN <<>>
           ELSE << [ content |-> st.fields[1],
                     metadata |-> [transactionIds |-> st.fields[2], checksum |-> st.fields[3]] ] >>

\* the codes of the characters of text, in order
HashCodes ==
  <<9, 10>> \o [i \in 1..Len(Printable) |-> 31 + i]
            \o [i \in 1..Len(PrintableLower) |-> 96 + i] \o <<126>>

\* the digest character of each character: a permutation of the characters
HashSub ==
  [c \in DOMAIN CharCodes |->
     LET pos == CHOOSE i \in 1..Len(HashCodes) : HashCodes[i] = CharCodes[c]
     IN  CodeChars[HashCodes[((7 * pos + 3) % Len(HashCodes)) + 1]]]

RECURSIVE HashRange(_, _, _)
HashRange(text, lo, hi) ==
  IF lo > hi THEN ""
  ELSE IF lo = hi THEN HashSub[CharAt(text, lo)]
  ELSE HashRange(text, lo, (lo + hi) \div 2) \o HashRange(text, (lo + hi) \div 2 + 1, hi)

\* hash(text): createHash('sha256').update(text).digest('hex')
hash(text) == HashRange(text, 1, Len(text))

\* encryptFileContent(content, metadata) with the random iv
encryptFileContent(k, iv, content, metadata) ==
  LET fileData == [content |-> content, metadata |-> metadata]
      fileJson == JsonStringify(fileData)
      encrypted == ToHex(CbcEncrypt(k, iv, Pad(Utf8Encode(fileJson))))
  IN  "FILE:" \o ToHex(iv) \o ":" \o encrypted

\* encryptNACHAFile(nachaContent, transactionIds, effectiveDate)
encryptNACHAFile(k, iv, nachaContent, transactionIds) ==
  encryptFileContent(k, iv, nachaContent,
                     [transactionIds |-> transactionIds, checksum |-> hash(nachaContent)])

RECURSIVE Split(_, _)
\* str.split(sep) for a one-character separator
Split(str, sep) ==
  LET at == {i \in 1..Len(str) : CharAt(str, i) = sep}
  IN  IF at = {} THEN <<str>>
      ELSE LET p == CHOOSE i \in at : \A j \in at : i <= j
           IN  <<SubSeq(str, 1, p - 1)>> \o Split(SubSeq(str, p + 1, Len(str)), sep)

\* str.startsWith(prefix)
StartsWith(str, prefix) == Len(str) >= Len(prefix) /\ SubSeq(str, 1, Len(prefix)) = prefix

\* the Error thrown, with its message
Threw(message) == [threw |-> TRUE, message |-> message]

\* the Error the catch of decryptFileContent throws for the error caught
FileDecryptionFailed(message) == Threw("File decryption failed: " \o message)

\* decryptFileContent(encryptedFileData); the messages of the errors of crypto and
\* JSON.parse are named after their cause
decryptFileContent(k, encryptedFileData) ==
  IF ~StartsWith(encryptedFileData, "FILE:")
  THEN FileDecryptionFailed("Invalid encrypted file format")
  ELSE LET parts == Split(encryptedFileData, ":")
       IN  IF Len(parts) < 3 \/ parts[2] = "" \/ parts[3] = ""
           THEN FileDecryptionFailed("Invalid encrypted file data format")
           ELSE LET iv == FromHex(parts[2])
                    data == FromHex(parts[3])
                IN  IF Len(iv) # BlockLen
                    THEN FileDecryptionFailed("Invalid initialization vector")
                    ELSE IF data = <<>> \/ Len(data) % BlockLen # 0
                    THEN FileDecryptionFailed("wrong final block length")
                    ELSE LET padded == CbcDecrypt(k, iv, data)
                         IN  IF ~PadOk(padded) THEN FileDecryptionFailed("bad decrypt")
                             ELSE LET parsed == JsonParse(Utf8Decode(Unpad(padded)))
                                  IN  IF parsed = <<>>
                                      THEN FileDecryptionFailed("Unexpected token in JSON")
                                      ELSE IF parsed[1].content = ""
                                      THEN FileDecryptionFailed("Invalid file data structure")
                                      ELSE [ threw |-> FALSE,
                                             content |-> parsed[1].content,
                                             metadata |-> parsed[1].metadata ]

\* decryptNACHAFile, after decryptFileContent: the checksum of the metadata is compared
\* with the hash of the content
VerifyChecksum(decrypted) ==
  IF decrypted.threw THEN decrypted
  ELSE LET expectedChecksum == hash(decrypted.content)
           isValid == decrypted.metadata.checksum = expectedChecksum
       IN  [ threw |-> FALSE, content |-> decrypted.content,
             metadata |-> decrypted.metadata, isValid |-> isValid ]

\* decryptNACHAFile(encryptedNACHAData)
decryptNACHAFile(k, encryptedNACHAData) ==
  VerifyChecksum(decryptFileContent(k, encryptedNACHAData))

(***************************************************************************)
(* EncryptionService: inputs                                               *)
(***************************************************************************)
MaxPlain == 1

MaxIds == 4

RECURSIVE StringsOver(_, _)
\* the strings of exactly n characters of chars
StringsOver(chars, n) ==
  IF n = 0 THEN {""} ELSE {c \o s : c \in chars, s \in StringsOver(chars, n - 1)}

\* plaintexts: lines of text joined by newlines, the empty text included
Plaintexts == UNION {StringsOver({"a", "\n"}, n) : n \in 0..MaxPlain}

\* the transaction ids of the metadata, written as one string
IdStrings == UNION {StringsOver({"b"}, n) : n \in 0..MaxIds}

\* crypto.randomBytes for the iv
IvPool == {<<0, 0>>, <<167, 26>>}

\* what a character of the stored envelope may be changed to: every hexadecimal digit
\* of either case, a character that is no digit, and the separator
TamperChars ==
  {CharAt(HexDigits, i) : i \in 1..Len(HexDigits)}
    \cup {CharAt(UpperHexDigits, i) : i \in 1..Len(UpperHexDigits)}
    \cup {"x", ":"}

\* an EncryptionService constructed, nothing sealed yet
EncConstructed ==
  /\ key = DerivedKey
  /\ plaintext = ""
  /\ envelope = ""
  /\ sealed = ""
  /\ outcome = [called |-> FALSE]

(***************************************************************************)
(* NACHAService: validation                                                *)
(***************************************************************************)
TooFewRecords ==
  "File must have at least 4 records (header, batch header, batch control, file control)"

NotFileHeader == "First record must be File Header (type 1)"

NotBatchHeader == "Second record must be Batch Header (type 5)"

\* the error of line index (0-based)
LineError(index) == "Line " \o ToString(index + 1) \o " must be exactly 94 characters"

RECURSIVE LineErrors(_, _, _)
\* lines.forEach over the 0-based indexes lo..hi: the errors pushed, in order
LineErrors(lines, lo, hi) ==
  IF lo > hi THEN <<>>
  ELSE IF lo = hi
  THEN (IF Len(lines[lo + 1]) # 94 /\ lo < Len(lines) - 1 THEN <<LineError(lo)>> ELSE <<>>)
  ELSE LineErrors(lines, lo, (lo + hi) \div 2) \o LineErrors(lines, (lo + hi) \div 2 + 1, hi)

\* mutant of validateNACHAFile: it stops at the first violation
validateNACHAFile_FirstOnly(content) ==
  LET lines == Split(content, "\n")
      all == (IF Len(lines) < 4 THEN <<TooFewRecords>> ELSE <<>>)
               \o (IF Len(lines) > 0 /\ ~StartsWith(lines[1], "1") THEN <<NotFileHeader>> ELSE <<>>)
               \o (IF Len(lines) > 1 /\ ~StartsWith(lines[2], "5") THEN <<NotBatchHeader>> ELSE <<>>)
               \o LineErrors(lines, 0, Len(lines) - 1)
      errors == IF all = <<>> THEN <<>> ELSE <<all[1]>>
  IN  [isValid |-> Len(errors) = 0, errors |-> errors]

\* validateNACHAFile(content)
validateNACHAFile(content) ==
  LET lines == Split(content, "\n")
      errors == (IF Len(lines) < 4 THEN <<TooFewRecords>> ELSE <<>>)
                  \o (IF Len(lines) > 0 /\ ~StartsWith(lines[1], "1") THEN <<NotFileHeader>> ELSE <<>>)
                  \o (IF Len(lines) > 1 /\ ~StartsWith(lines[2], "5") THEN <<NotBatchHeader>> ELSE <<>>)
                  \o LineErrors(lines, 0, Len(lines) - 1)
  IN  [isValid |-> Len(errors) = 0, errors |-> errors]

RECURSIVE Join(_, _, _)
\* lines.join(sep), elements lo..hi
Join(lines, lo, hi) ==
  IF lo > hi THEN ""
  ELSE IF lo = hi THEN lines[lo]
  ELSE Join(lines, lo, (lo + hi) \div 2) \o "\n" \o Join(lines, (lo + hi) \div 2 + 1, hi)

\* lines of the texts handed to validateNACHAFile
MaxLines == 5

\* a well-formed file header and batch header, a batch header one character short, an
\* entry, an empty line, a line of one character
LinePool ==
  { "1" \o Rep("0", 93), "5" \o Rep(" ", 93), "5" \o Rep(" ", 92), "6" \o Rep("0", 93), "", "1" }

RECURSIVE LineSeqs(_)
\* the sequences of n lines of the pool
LineSeqs(n) ==
  IF n = 0 THEN {<<>>} ELSE {Append(ls, l) : ls \in LineSeqs(n - 1), l \in LinePool}

\* the texts handed to validateNACHAFile, as their lines
ValidateInputs == UNION {LineSeqs(n) : n \in 0..MaxLines}

(***************************************************************************)
(* NACHAService: generation with encryption, decryption, complete          *)
(* validation.  svc is the encryptionService field: <<>> when the service   *)
(* was constructed without one, <<key>> otherwise.                          *)
(***************************************************************************)
RECURSIVE TransactionIds(_, _, _)
\* transactions.map(tx => tx.id) of elements lo..hi, as the text the metadata holds
TransactionIds(txs, lo, hi) ==
  IF lo > hi THEN ""
  ELSE IF lo = hi THEN txs[lo].id
  ELSE TransactionIds(txs, lo, (lo + hi) \div 2) \o ","
         \o TransactionIds(txs, (lo + hi) \div 2 + 1, hi)

\* generateNACHAFile(transactions, effectiveDate, fileType, encrypt): the fields of the
\* NACHAFile that depend on the encryption
generateNACHAFile(cfg, svc, seqNo, now, txs, effDate, type, rnds, encrypt, iv) ==
  LET lines == generateFileContent(cfg, seqNo, now, txs, effDate, type, rnds)
      content == Join(lines, 1, Len(lines))
      transactionIds == TransactionIds(txs, 1, Len(txs))
      finalContent == IF encrypt /\ svc # <<>>
                      THEN encryptNACHAFile(svc[1], iv, content, transactionIds)
                      ELSE content
  IN  [ content |-> finalContent,
        transactionCount |-> Len(txs),
        encrypted |-> encrypt /\ svc # <<>> ]

\* generateSecureNACHAFile(transactions, effectiveDate, fileType)
generateSecureNACHAFile(cfg, svc, seqNo, now, txs, effDate, type, rnds, iv) ==
  IF svc = <<>>
  THEN Threw("Encryption service is required for secure NACHA file generation")
  ELSE [ threw |-> FALSE,
         file |-> generateNACHAFile(cfg, svc, seqNo, now, txs, effDate, type, rnds, TRUE, iv) ]

\* NACHAService.decryptNACHAFile(encryptedContent)
NACHAService_decryptNACHAFile(svc, encryptedContent) ==
  IF svc = <<>>
  THEN Threw("Encryption service is required for NACHA file decryption")
  ELSE decryptNACHAFile(svc[1], encryptedContent)

\* getNACHAFileContent, after the decryption: decrypted.content is returned, an error
\* passes through
ContentOf(decrypted) ==
  IF decrypted.threw THEN decrypted ELSE [threw |-> FALSE, content |-> decrypted.content]

\* getNACHAFileContent(content): the text returned, or the error thrown
getNACHAFileContent_AlwaysDecrypts(svc, content) ==
  ContentOf(NACHAService_decryptNACHAFile(svc, content))

getNACHAFileContent(svc, content) ==
  IF StartsWith(content, "FILE:") /\ svc # <<>>
  THEN ContentOf(NACHAService_decryptNACHAFile(svc, content))
  ELSE [threw |-> FALSE, content |-> content]

\* the error messages of validateNACHAFileComplete
NoEncryptionService == "Encrypted file detected but no encryption service available"

IntegrityCheckFailed == "File integrity check failed - content may be corrupted"

DecryptionFailed(message) == "Decryption failed: " \o message

\* the result returned at the end of validateNACHAFileComplete: the validation of the
\* format, with isEncrypted, metadata and integrityValid
WithEncryption(validation, isEncrypted, metadata, integrityValid) ==
  [ isValid |-> validation.isValid, errors |-> validation.errors,
    isEncrypted |-> isEncrypted, metadata |-> metadata, integrityValid |-> integrityValid ]

\* validateNACHAFileComplete for encrypted content, after the call of decryptNACHAFile
ValidateDecrypted_OneFailure(decrypted) ==
  IF decrypted.threw \/ ~decrypted.isValid
  THEN [ isValid |-> FALSE, errors |-> <<IntegrityCheckFailed>>,
         isEncrypted |-> TRUE, integrityValid |-> FALSE ]
  ELSE WithEncryption(validateNACHAFile(decrypted.content), TRUE, decrypted.metadata, TRUE)

ValidateDecrypted(decrypted) ==
  IF decrypted.threw
  THEN [ isValid |-> FALSE, errors |-> <<DecryptionFailed(decrypted.message)>>,
         isEncrypted |-> TRUE, integrityValid |-> FALSE ]
  ELSE IF ~decrypted.isValid
  THEN [ isValid |-> FALSE, errors |-> <<IntegrityCheckFailed>>,
         isEncrypted |-> TRUE, metadata |-> decrypted.metadata, integrityValid |-> FALSE ]
  ELSE WithEncryption(validateNACHAFile(decrypted.content), TRUE, decrypted.metadata, TRUE)

\* validateNACHAFileComplete(content)
validateNACHAFileComplete(svc, content) ==
  IF StartsWith(content, "FILE:")
  THEN IF svc = <<>>
       THEN [isValid |-> FALSE, errors |-> <<NoEncryptionService>>, isEncrypted |-> TRUE]
       ELSE ValidateDecrypted(NACHAService_decryptNACHAFile(svc, content))
  ELSE WithEncryption(validateNACHAFile(content), FALSE, <<>>, TRUE)

\* texts that resemble the marker of an envelope without beginning with it
MarkerLike == {"FILE", "file:0000:b9a9", " FILE:0000:b9a9", "FILE;0000:b9a9"}

\* plain texts handed to the operations that accept envelopes
PlainInputs ==
  {Join(lines, 1, Len(lines)) : lines \in LineSeqs(0) \cup LineSeqs(1) \cup LineSeqs(2)}
    \cup MarkerLike

(***************************************************************************)
(* BusinessDayService                                                      *)
(***************************************************************************)
FirstYear == 2020

LastYear == 2030

MaxDays == 3

Years == FirstYear..LastYear

getMLKDay(year) ==
  LET jan == Moment(year, 0, 1)
      firstMonday0 == SetDay(jan, 1)
      firstMonday == IF DateOf(firstMonday0) > 1 THEN firstMonday0 + 7 ELSE firstMonday0
  IN  FormatYMD(firstMonday + 14)

getPresidentsDay(year) ==
  LET feb == Moment(year, 1, 1)
      firstMonday0 == SetDay(feb, 1)
      firstMonday == IF DateOf(firstMonday0) > 1 THEN firstMonday0 + 7 ELSE firstMonday0
  IN  FormatYMD(firstMonday + 14)

getMemorialDay(year) ==
  LET may == Moment(year, 4, 31)
  IN  FormatYMD(SetDay(may, 1))

getLaborDay(year) ==
  LET sep == Moment(year, 8, 1)
      firstMonday0 == SetDay(sep, 1)
      firstMonday == IF DateOf(firstMonday0) > 1 THEN firstMonday0 + 7 ELSE firstMonday0
  IN  FormatYMD(firstMonday)

getColumbusDay(year) ==
  LET oct == Moment(year, 9, 1)
      firstMonday0 == SetDay(oct, 1)
      firstMonday == IF DateOf(firstMonday0) > 1 THEN firstMonday0 + 7 ELSE firstMonday0
  IN  FormatYMD(firstMonday + 7)

getThanksgiving(year) ==
  LET nov == Moment(year, 10, 1)
      firstThursday0 == SetDay(nov, 4)
      firstThursday == IF DateOf(firstThursday0) > 1 THEN firstThursday0 + 7 ELSE firstThursday0
  IN  FormatYMD(firstThursday + 21)

initializeFederalHolidays(year) ==
  << ToString(year) \o "-01-01",
     getMLKDay(year),
     getPresidentsDay(year),
     getMemorialDay(year),
     ToString(year) \o "-07-04",
     getLaborDay(year),
     getColumbusDay(year),
     ToString(year) \o "-11-11",
     getThanksgiving(year),
     ToString(year) \o "-12-25" >>

\* Array.prototype.includes
Includes(arr, x) == \E i \in 1..Len(arr) : arr[i] = x

\* mutant of isBusinessDay: the holiday set is not consulted
isBusinessDay_WeekendOnly(holidays, n) == ~(Day(n) = 0 \/ Day(n) = 6)

\* mutant of isBusinessDay: a holiday is recognised by its month and day in any year
isBusinessDay_AnyYear(holidays, n) ==
  IF Day(n) = 0 \/ Day(n) = 6 THEN FALSE
  ELSE ~\E i \in 1..Len(holidays) : SubSeq(holidays[i], 5, 10) = SubSeq(FormatYMD(n), 5, 10)

isBusinessDay(holidays, n) ==
  IF Day(n) = 0 \/ Day(n) = 6 THEN FALSE
  ELSE ~Includes(holidays, FormatYMD(n))

\* the while condition of getNextBusinessDay and getPreviousBusinessDay: mutant that
\* looks at the weekday alone
KeepsLooking_WeekendOnly(holidays, day) == Day(day) = 0 \/ Day(day) = 6

\* the while condition of getNextBusinessDay and getPreviousBusinessDay
KeepsLooking(holidays, day) == ~isBusinessDay(holidays, day)

\* addedDays after one iteration of the loop of addBusinessDays that moved result to
\* next: mutant counting every calendar day
AddedAfterStep_CountEveryDay(holidays, next, added) == added + 1

\* addedDays after one iteration of the loop of addBusinessDays that moved result to next
AddedAfterStep(holidays, next, added) ==
  IF isBusinessDay(holidays, next) THEN added + 1 ELSE added

\* the dates a caller passes: every day of the construction year
StartDates(year) == Moment(year, 0, 1)..Moment(year, 11, 31)

\* the dates isBusinessDay is asked about: the year of the construction, the year
\* before it and the year after it
QueryDates(year) == Moment(year - 1, 0, 1)..Moment(year + 1, 11, 31)

\* a BusinessDayService constructed in year
CalConstructed(year) ==
  /\ currentYear = year
  /\ federalHolidays = initializeFederalHolidays(year)
  /\ abdPc = "idle"
  /\ abdDate = 0
  /\ abdDays = 0
  /\ abdResult = 0
  /\ abdAdded = 0
  /\ bdOp = "none"
  /\ bdPc = "idle"
  /\ bdDate = 0
  /\ bdResult = 0

InitCal ==
  /\ AppStarted
  /\ \E year \in Years : CalConstructed(year)
  /\ NachaConstructed(MockConfig, <<DerivedKey>>)
  /\ NachaRequest(<<>>, 0, "DR")
  /\ EncConstructed

\* addBusinessDays(date, days): entry, lines 109-110
AddBusinessDaysCall ==
  /\ abdPc = "idle"
  /\ bdPc = "idle"
  /\ \E date \in StartDates(currentYear), days \in 0..MaxDays :
       /\ abdDate' = date
       /\ abdDays' = days
       /\ abdResult' = date
       /\ abdAdded' = 0
  /\ abdPc' = "loop"
  /\ UNCHANGED <<currentYear, federalHolidays, bdVars>>
  /\ UNCHANGED <<nachaVars, encVars, appVars>>

\* one iteration of the while loop, lines 112-117
AddBusinessDaysLoop ==
  /\ abdPc = "loop"
  /\ abdAdded < abdDays
  /\ abdResult' = abdResult + 1
  /\ abdAdded' = AddedAfterStep(federalHolidays, abdResult + 1, abdAdded)
  /\ UNCHANGED <<currentYear, federalHolidays, abdPc, abdDate, abdDays, bdVars>>
  /\ UNCHANGED <<nachaVars, encVars, appVars>>

\* loop exit and return, line 119
AddBusinessDaysReturn ==
  /\ abdPc = "loop"
  /\ ~(abdAdded < abdDays)
  /\ abdPc' = "done"
  /\ UNCHANGED <<currentYear, federalHolidays, abdDate, abdDays, abdResult, abdAdded, bdVars>>
  /\ UNCHANGED <<nachaVars, encVars, appVars>>

\* isBusinessDay(date), called by a client
IsBusinessDayCall ==
  /\ abdPc = "idle"
  /\ bdPc = "idle"
  /\ \E date \in QueryDates(currentYear) :
       /\ bdDate' = date
       /\ bdResult' = isBusinessDay(federalHolidays, date)
  /\ bdOp' = "isBusinessDay"
  /\ bdPc' = "done"
  /\ UNCHANGED <<currentYear, federalHolidays, abdVars>>
  /\ UNCHANGED <<nachaVars, encVars, appVars>>

\* getNextBusinessDay(date): entry, line 89
GetNextBusinessDayCall ==
  /\ abdPc = "idle"
  /\ bdPc = "idle"
  /\ \E date \in StartDates(currentYear) :
       /\ bdDate' = date
       /\ bdResult' = date + 1
  /\ bdOp' = "getNextBusinessDay"
  /\ bdPc' = "loop"
  /\ UNCHANGED <<currentYear, federalHolidays, abdVars>>
  /\ UNCHANGED <<nachaVars, encVars, appVars>>

\* one iteration of the while loop, lines 91-93
GetNextBusinessDayLoop ==
  /\ bdOp = "getNextBusinessDay"
  /\ bdPc = "loop"
  /\ KeepsLooking(federalHolidays, bdResult)
  /\ bdResult' = bdResult + 1
  /\ UNCHANGED <<currentYear, federalHolidays, abdVars, bdOp, bdPc, bdDate>>
  /\ UNCHANGED <<nachaVars, encVars, appVars>>

\* loop exit and return, line 95
GetNextBusinessDayReturn ==
  /\ bdOp = "getNextBusinessDay"
  /\ bdPc = "loop"
  /\ ~KeepsLooking(federalHolidays, bdResult)
  /\ bdPc' = "done"
  /\ UNCHANGED <<currentYear, federalHolidays, abdVars, bdOp, bdDate, bdResult>>
  /\ UNCHANGED <<nachaVars, encVars, appVars>>

\* getPreviousBusinessDay(date): entry, line 99
GetPreviousBusinessDayCall ==
  /\ abdPc = "idle"
  /\ bdPc = "idle"
  /\ \E date \in StartDates(currentYear) :
       /\ bdDate' = date
       /\ bdResult' = date - 1
  /\ bdOp' = "getPreviousBusinessDay"
  /\ bdPc' = "loop"
  /\ UNCHANGED <<currentYear, federalHolidays, abdVars>>
  /\ UNCHANGED <<nachaVars, encVars, appVars>>

\* one iteration of the while loop, lines 101-103
GetPreviousBusinessDayLoop ==
  /\ bdOp = "getPreviousBusinessDay"
  /\ bdPc = "loop"
  /\ KeepsLooking(federalHolidays, bdResult)
  /\ bdResult' = bdResult - 1
  /\ UNCHANGED <<currentYear, federalHolidays, abdVars, bdOp, bdPc, bdDate>>
  /\ UNCHANGED <<nachaVars, encVars, appVars>>

\* loop exit and return, line 105
GetPreviousBusinessDayReturn ==
  /\ bdOp = "getPreviousBusinessDay"
  /\ bdPc = "loop"
  /\ ~KeepsLooking(federalHolidays, bdResult)
  /\ bdPc' = "done"
  /\ UNCHANGED <<currentYear, federalHolidays, abdVars, bdOp, bdDate, bdResult>>
  /\ UNCHANGED <<nachaVars, encVars, appVars>>

NextCal ==
  \/ AddBusinessDaysCall \/ AddBusinessDaysLoop \/ AddBusinessDaysReturn
  \/ IsBusinessDayCall
  \/ GetNextBusinessDayCall \/ GetNextBusinessDayLoop \/ GetNextBusinessDayReturn
  \/ GetPreviousBusinessDayCall \/ GetPreviousBusinessDayLoop \/ GetPreviousBusinessDayReturn

SpecCal == InitCal /\ [][NextCal]_vars

(***************************************************************************)
(* NACHAService: state machine                                             *)
(***************************************************************************)
InitNacha ==
  /\ AppStarted
  /\ \E cfg \in Configs : NachaConstructed(cfg, <<>>)
  /\ \E txs \in TxLists, effDate \in EffectiveDates, type \in {"DR", "CR"} :
       NachaRequest(txs, effDate, type)
  /\ CalConstructed(FirstYear)
  /\ EncConstructed

\* generateNACHAFile(transactions, effectiveDate, fileType, false): the content
GenerateNACHAFile ==
  /\ \E now \in NowPool, rnds \in RandSeqs(Len(transactions)) :
       fileLines' = generateFileContent(config, fileSequenceNumber, now, transactions,
                                        effectiveDate, fileType, rnds)
  /\ UNCHANGED <<config, fileSequenceNumber, transactions, effectiveDate, fileType>>
  /\ UNCHANGED <<encryptionService, seqVars, clientVars>>
  /\ UNCHANGED <<calVars, appVars, encVars>>

NextNacha == GenerateNACHAFile

Spec == InitNacha /\ [][NextNacha]_vars

(***************************************************************************)
(* POST /generate: requests sharing the NACHAService of the process.  A     *)
(* handler runs without interruption between two awaits; at an await other *)
(* handlers run.                                                           *)
(***************************************************************************)
InitSeq ==
  /\ AppStarted
  /\ \E svc \in {<<>>, <<DerivedKey>>} : NachaConstructed(MockConfig, svc)
  /\ NachaRequest(<<MockTransaction>>, Moment(2024, 8, 17), "DR")
  /\ CalConstructed(FirstYear)
  /\ EncConstructed

\* the handler from the return of getTransactions to the await of createNACHAFile:
\* generateSecureNACHAFile, which throws without an encryption service (caught: 500)
\* and otherwise calls generateNACHAFile, whose file header is kept
RequestGenerate(r) ==
  /\ reqPc[r] = "idle"
  /\ IF encryptionService = <<>>
     THEN /\ reqPc' = [reqPc EXCEPT ![r] = "failed"]
          /\ UNCHANGED reqHeader
     ELSE /\ reqPc' = [reqPc EXCEPT ![r] = "saving"]
          /\ \E now \in NowPool :
               reqHeader' = [reqHeader EXCEPT
                               ![r] = generateFileHeader(config, fileSequenceNumber, now)]
  /\ UNCHANGED <<config, fileSequenceNumber, transactions, effectiveDate, fileType, fileLines>>
  /\ UNCHANGED <<encryptionService, incrementCalls, clientVars>>
  /\ UNCHANGED <<calVars, appVars, encVars>>

\* createNACHAFile or updateTransactionStatus rejects: the catch answers 500
RequestSaveFails(r) ==
  /\ reqPc[r] = "saving"
  /\ reqPc' = [reqPc EXCEPT ![r] = "failed"]
  /\ UNCHANGED <<config, fileSequenceNumber, transactions, effectiveDate, fileType, fileLines>>
  /\ UNCHANGED <<encryptionService, reqHeader, incrementCalls, clientVars>>
  /\ UNCHANGED <<calVars, appVars, encVars>>

\* the handler after its awaits: incrementSequenceNumber() and the 201 response
RequestIncrement(r) ==
  /\ reqPc[r] = "saving"
  /\ incrementCalls < MaxIncrements
  /\ fileSequenceNumber' = incrementSequenceNumber(fileSequenceNumber)
  /\ incrementCalls' = incrementCalls + 1
  /\ reqPc' = [reqPc EXCEPT ![r] = "done"]
  /\ UNCHANGED <<config, transactions, effectiveDate, fileType, fileLines>>
  /\ UNCHANGED <<encryptionService, reqHeader, clientVars>>
  /\ UNCHANGED <<calVars, appVars, encVars>>

\* the response is out; the next request takes the slot
RequestNext(r) ==
  /\ reqPc[r] \in {"done", "failed"}
  /\ encryptionService # <<>>
  /\ reqPc' = [reqPc EXCEPT ![r] = "idle"]
  /\ reqHeader' = [reqHeader EXCEPT ![r] = ""]
  /\ UNCHANGED <<config, fileSequenceNumber, transactions, effectiveDate, fileType, fileLines>>
  /\ UNCHANGED <<encryptionService, incrementCalls, clientVars>>
  /\ UNCHANGED <<calVars, appVars, encVars>>

NextSeq ==
  \E r \in Requests :
    RequestGenerate(r) \/ RequestSaveFails(r) \/ RequestIncrement(r) \/ RequestNext(r)

SpecSeq == InitSeq /\ [][NextSeq]_vars

(***************************************************************************)
(* NACHAService: validateNACHAFile called on arbitrary text                *)
(***************************************************************************)
InitValidate ==
  /\ AppStarted
  /\ \E svc \in {<<>>, <<DerivedKey>>} : NachaConstructed(MockConfig, svc)
  /\ NachaRequest(<<>>, 0, "DR")
  /\ CalConstructed(FirstYear)
  /\ EncConstructed

\* what a call of an operation on a text leaves alone
CallFrame ==
  /\ UNCHANGED <<config, fileSequenceNumber, transactions, effectiveDate, fileType, fileLines>>
  /\ UNCHANGED <<encryptionService, seqVars, nachaFile>>
  /\ UNCHANGED <<calVars, appVars, encVars>>

\* validateNACHAFile(content), content being lines joined by newlines; one call is
\* followed
ValidateNACHAFile ==
  /\ lastCall.op = "none"
  /\ \E lines \in ValidateInputs :
       LET content == Join(lines, 1, Len(lines))
       IN  lastCall' = [ op |-> "validateNACHAFile", lines |-> lines, content |-> content,
                         result |-> validateNACHAFile(content) ]
  /\ CallFrame

\* validateNACHAFileComplete(content)
CallValidateNACHAFileComplete(content) ==
  /\ lastCall.op = "none"
  /\ lastCall' = [ op |-> "validateNACHAFileComplete", content |-> content,
                   result |-> validateNACHAFileComplete(encryptionService, content) ]
  /\ CallFrame

\* getNACHAFileContent(content)
CallGetNACHAFileContent(content) ==
  /\ lastCall.op = "none"
  /\ lastCall' = [ op |-> "getNACHAFileContent", content |-> content,
                   result |-> getNACHAFileContent(encryptionService, content) ]
  /\ CallFrame

\* encryptionService.decryptFileContent(content)
CallDecryptFileContent(content) ==
  /\ lastCall.op = "none"
  /\ encryptionService # <<>>
  /\ lastCall' = [ op |-> "decryptFileContent", content |-> content,
                   result |-> decryptFileContent(encryptionService[1], content) ]
  /\ CallFrame

\* the operations that accept envelopes, called on plain text
ValidatePlain == \E content \in PlainInputs : CallValidateNACHAFileComplete(content)

GetPlain == \E content \in PlainInputs : CallGetNACHAFileContent(content)

DecryptPlain == \E content \in PlainInputs : CallDecryptFileContent(content)

NextValidate == ValidateNACHAFile \/ ValidatePlain \/ GetPlain \/ DecryptPlain

SpecValidate == InitValidate /\ [][NextValidate]_vars

(***************************************************************************)
(* Secure files: generateSecureNACHAFile, then the stored content is       *)
(* validated or read back.                                                  *)
(***************************************************************************)
\* the transactions of the secure files
SecureTxLists ==
  { <<MockTransaction>>,
    <<[MockTransaction EXCEPT !.id = "tx-2", !.amount = 1004],
      [MockTransaction EXCEPT !.id = "tx-3", !.amount = 1234562]>> }

InitFile ==
  /\ AppStarted
  /\ \E cfg \in Configs, svc \in {<<>>, <<DerivedKey>>} : NachaConstructed(cfg, svc)
  /\ \E txs \in SecureTxLists, effDate \in EffectiveDates, type \in {"DR", "CR"} :
       NachaRequest(txs, effDate, type)
  /\ CalConstructed(FirstYear)
  /\ EncConstructed

\* generateSecureNACHAFile(transactions, effectiveDate, fileType): the file is stored,
\* or the error is seen by the caller
GenerateSecureNACHAFile ==
  /\ nachaFile = <<>>
  /\ lastCall.op = "none"
  /\ \E now \in NowPool, r \in RandPool, iv \in IvPool :
       LET rnds == [i \in 1..Len(transactions) |-> r]
           generated == generateSecureNACHAFile(config, encryptionService,
                          fileSequenceNumber, now, transactions, effectiveDate, fileType,
                          rnds, iv)
       IN  IF generated.threw
           THEN /\ lastCall' = [op |-> "generateSecureNACHAFile", result |-> generated]
                /\ UNCHANGED nachaFile
           ELSE /\ nachaFile' = <<generated.file>>
                /\ UNCHANGED lastCall
  /\ UNCHANGED <<config, fileSequenceNumber, transactions, effectiveDate, fileType, fileLines>>
  /\ UNCHANGED <<encryptionService, seqVars>>
  /\ UNCHANGED <<calVars, appVars, encVars>>

\* validateNACHAFileComplete(file.content)
ValidateStoredFile ==
  /\ nachaFile # <<>>
  /\ CallValidateNACHAFileComplete(nachaFile[1].content)

\* getNACHAFileContent(file.content)
GetStoredFileContent ==
  /\ nachaFile # <<>>
  /\ CallGetNACHAFileContent(nachaFile[1].content)

NextFile == GenerateSecureNACHAFile \/ ValidateStoredFile \/ GetStoredFileContent

SpecFile == InitFile /\ [][NextFile]_vars

(***************************************************************************)
(* EncryptionService: state machine                                        *)
(***************************************************************************)
InitEnc ==
  /\ AppStarted
  /\ EncConstructed
  /\ CalConstructed(FirstYear)
  /\ NachaConstructed(MockConfig, <<DerivedKey>>)
  /\ NachaRequest(<<>>, 0, "DR")

\* encryptNACHAFile(nachaContent, transactionIds, effectiveDate); the envelope is stored
EncryptNACHAFile ==
  /\ sealed = ""
  /\ \E nachaContent \in Plaintexts, transactionIds \in IdStrings, iv \in IvPool :
       /\ plaintext' = nachaContent
       /\ sealed' = encryptNACHAFile(key, iv, nachaContent, transactionIds)
       /\ envelope' = sealed'
  /\ UNCHANGED <<key, outcome>>
  /\ UNCHANGED <<calVars, appVars, nachaVars>>

\* the position of the first character of the ciphertext part of an envelope
CipherStart(env) == Len("FILE:") + 2 * BlockLen + 2

\* one character of the ciphertext part of the stored envelope is changed; one fault,
\* a changed envelope or a changed key, is followed
CorruptCiphertext ==
  /\ sealed # ""
  /\ envelope = sealed
  /\ key = DerivedKey
  /\ ~outcome.called
  /\ \E p \in CipherStart(envelope)..Len(envelope), c \in TamperChars :
       /\ c # CharAt(envelope, p)
       /\ envelope' = SubSeq(envelope, 1, p - 1) \o c \o SubSeq(envelope, p + 1, Len(envelope))
  /\ UNCHANGED <<key, plaintext, sealed, outcome>>
  /\ UNCHANGED <<calVars, appVars, nachaVars>>

\* decryptNACHAFile(envelope)
DecryptNACHAFile ==
  /\ sealed # ""
  /\ ~outcome.called
  /\ outcome' = [called |-> TRUE, result |-> decryptNACHAFile(key, envelope)]
  /\ UNCHANGED <<key, plaintext, sealed, envelope>>
  /\ UNCHANGED <<calVars, appVars, nachaVars>>

\* the process is started again with another ENCRYPTION_KEY: both services are
\* constructed anew, the stored envelope stays
RestartWithOtherKey ==
  /\ sealed # ""
  /\ envelope = sealed
  /\ ~outcome.called
  /\ key = DerivedKey
  /\ key' = OtherKey
  /\ encryptionService' = <<OtherKey>>
  /\ UNCHANGED <<plaintext, sealed, envelope, outcome>>
  /\ UNCHANGED <<config, fileSequenceNumber, transactions, effectiveDate, fileType, fileLines>>
  /\ UNCHANGED <<seqVars, clientVars, calVars, appVars>>

\* GET /files/:id/download for a file that is found: the response to the content
\* getNACHAFileContent returned or to the error it threw
DownloadResponse(got) ==
  IF got.threw
  THEN [status |-> 500, error |-> "Failed to download NACHA file"]
  ELSE [status |-> 200, body |-> got.content]

\* GET /files/:id/download of the file whose content is the stored envelope, after the
\* envelope was opened
DownloadEnvelope ==
  /\ outcome.called
  /\ lastCall.op = "none"
  /\ lastCall' = [ op |-> "download", content |-> envelope,
                   result |-> DownloadResponse(getNACHAFileContent(encryptionService, envelope)) ]
  /\ CallFrame

\* validateNACHAFileComplete(envelope), after the envelope was opened
ValidateEnvelope ==
  /\ outcome.called
  /\ CallValidateNACHAFileComplete(envelope)

NextEnc ==
  \/ EncryptNACHAFile
  \/ CorruptCiphertext
  \/ RestartWithOtherKey
  \/ DecryptNACHAFile
  \/ ValidateEnvelope
  \/ DownloadEnvelope

SpecEnc == InitEnc /\ [][NextEnc]_vars

(***************************************************************************)
(* Claims about BusinessDayService                                         *)
(***************************************************************************)
\* the n-th occurrence of weekday wd in month month0 (0-based) of year: the first
\* occurrence on or after the 1st, plus (n-1) weeks
NthWeekday(year, month0, wd, n) ==
  LET first == Moment(year, month0, 1)
  IN  first + ((wd - Day(first) + 7) % 7) + 7 * (n - 1)

\* C8: for every construction year the holiday set holds the 3rd Monday of January,
\* the 3rd Monday of February, the 1st Monday of September, the 2nd Monday of October
\* and the 4th Thursday of November.
C8_NthWeekdayHolidays ==
  /\ Includes(federalHolidays, FormatYMD(NthWeekday(currentYear, 0, 1, 3)))
  /\ Includes(federalHolidays, FormatYMD(NthWeekday(currentYear, 1, 1, 3)))
  /\ Includes(federalHolidays, FormatYMD(NthWeekday(currentYear, 8, 1, 1)))
  /\ Includes(federalHolidays, FormatYMD(NthWeekday(currentYear, 9, 1, 2)))
  /\ Includes(federalHolidays, FormatYMD(NthWeekday(currentYear, 10, 4, 4)))

\* C9: the Memorial Day entry of the holiday set is the last Monday of May: a Monday
\* dated in May with no later Monday in May.
C9_MemorialDayLastMonday ==
  \E n \in Moment(currentYear, 4, 1)..Moment(currentYear, 4, 31) :
    /\ federalHolidays[4] = FormatYMD(n)
    /\ Day(n) = 1
    /\ n + 7 > Moment(currentYear, 4, 31)

\* the number of business days d with from < d <= to
BusinessDaysBetween(holidays, from, to) ==
  Cardinality({d \in (from + 1)..to : isBusinessDay(holidays, d)})

\* C10: addBusinessDays(date, n) terminates, and its result r has exactly n business
\* days d with date < d <= r; r = date when n = 0, and r is a business day when n >= 1.
\* Termination is stated by its variant: every iteration of the loop moves result one
\* day forward, and the loop never runs more than a week ahead of the business days
\* it has counted, so it has left the loop after at most 7 * (n + 1) iterations.
C10_AddBusinessDays ==
  /\ abdPc = "done" =>
        /\ BusinessDaysBetween(federalHolidays, abdDate, abdResult) = abdDays
        /\ (abdDays = 0 => abdResult = abdDate)
        /\ (abdDays >= 1 => isBusinessDay(federalHolidays, abdResult))
  /\ abdPc = "loop" =>
        /\ abdAdded = BusinessDaysBetween(federalHolidays, abdDate, abdResult)
        /\ abdAdded <= abdDays
        /\ abdResult - abdDate <= 7 * (abdAdded + 1)

\* a call of addBusinessDays that returned after stepping over non-business days
C10_Witness ==
  /\ abdPc = "done"
  /\ abdDays >= 2
  /\ abdResult - abdDate > abdDays + 2

\* C11: getNextBusinessDay(date) terminates and returns the earliest business day
\* strictly after date, getPreviousBusinessDay(date) terminates and returns the latest
\* business day strictly before date; neither returns date itself nor skips a business
\* day.  Termination: the local day is never more than 7 days from date.
C11_NextPreviousBusinessDay ==
  /\ (bdOp = "getNextBusinessDay") =>
       /\ bdResult > bdDate
       /\ bdResult - bdDate <= 7
       /\ \A d \in (bdDate + 1)..(bdResult - 1) : ~isBusinessDay(federalHolidays, d)
       /\ (bdPc = "done") => isBusinessDay(federalHolidays, bdResult)
  /\ (bdOp = "getPreviousBusinessDay") =>
       /\ bdResult < bdDate
       /\ bdDate - bdResult <= 7
       /\ \A d \in (bdResult + 1)..(bdDate - 1) : ~isBusinessDay(federalHolidays, d)
       /\ (bdPc = "done") => isBusinessDay(federalHolidays, bdResult)

\* getNextBusinessDay has returned after skipping a weekend and a holiday
C11_Witness ==
  /\ bdOp = "getNextBusinessDay"
  /\ bdPc = "done"
  /\ bdResult - bdDate >= 4
  /\ \E d \in (bdDate + 1)..(bdResult - 1) : Day(d) \notin {0, 6}

HolidaysOf == [year \in Years |-> initializeFederalHolidays(year)]

\* C30: the holiday set is the one computed at construction for the construction year
\* and never changes; isBusinessDay returns true for every weekday of another year,
\* that year's holidays included, so getNextBusinessDay and addBusinessDays that
\* cross into another year stop at, or count, every weekday there.
C30_HolidaysOfOneYear ==
  /\ federalHolidays = HolidaysOf[currentYear]
  /\ (bdOp = "isBusinessDay" /\ bdPc = "done" /\ YearOf(bdDate) # currentYear)
       => (bdResult = TRUE <=> Day(bdDate) \notin {0, 6})
  /\ (bdOp = "getNextBusinessDay" /\ bdPc = "done")
       => \A d \in (bdDate + 1)..(bdResult - 1) :
            YearOf(d) # currentYear => Day(d) \in {0, 6}
  /\ (abdPc = "done")
       => Cardinality({d \in (abdDate + 1)..abdResult :
                         YearOf(d) # currentYear /\ Day(d) \notin {0, 6}})
            <= abdDays

\* isBusinessDay has returned true for Christmas Day of the year after the construction
C30_Witness ==
  /\ bdOp = "isBusinessDay"
  /\ bdPc = "done"
  /\ bdResult = TRUE
  /\ FormatYMD(bdDate) = ToString(currentYear + 1) \o "-12-25"

(***************************************************************************)
(* Claims about NACHAService                                               *)
(***************************************************************************)
\* the field of width characters at 0-based offset start of a record
Field(line, start, width) == Substring(line, start, start + width)

Generated == fileLines # <<>>

\* the records of the file generated last
EntryLine(i) == fileLines[2 + i]

BatchControlLine == fileLines[3 + Len(transactions)]

FileControlLine == fileLines[4 + Len(transactions)]

FillerLine == Rep("9", 94)

\* C1: every line of the generated content (file header, batch header, each entry
\* detail, batch control, file control and each filler line) is exactly 94 characters
\* long, for every configured identifier set.
C1_EveryLineIs94 == \A i \in 1..Len(fileLines) : Len(fileLines[i]) = 94

\* C2: the number of lines is a multiple of 10: the 4+n substantive records are
\* followed by exactly the filler lines needed to reach the next multiple of 10, and by
\* none when 4+n is already a multiple of 10.
C2_BlockPadding ==
  Generated =>
    LET n == Len(transactions)
        total == Len(fileLines)
    IN  /\ total % 10 = 0
        /\ 4 + n <= total
        /\ total < 4 + n + 10
        /\ \A i \in 1..(4 + n) : fileLines[i] # FillerLine
        /\ \A i \in (4 + n + 1)..total : fileLines[i] = FillerLine

\* a file of 6 transactions: 10 records, no filler line
C2_Witness == Generated /\ Len(transactions) = 6 /\ Len(fileLines) = 10

\* C5: in the BatchControl record the batch total is in the field of the side of the
\* file and zero is in the other: debit total for a debit file, credit total for a
\* credit file.
C5_SideAppropriateTotal ==
  Generated =>
    LET total == padLeft(ToString(TotalAmountCents(transactions)), 12, "0")
        zero == Rep("0", 12)
        debitField == Field(BatchControlLine, 20, 12)
        creditField == Field(BatchControlLine, 32, 12)
    IN  IF fileType = "DR"
        THEN debitField = total /\ creditField = zero
        ELSE creditField = total /\ debitField = zero

RECURSIVE SumEntryAmounts(_, _)
\* the sum of the amount fields of the EntryDetail records lo..hi
SumEntryAmounts(lo, hi) ==
  IF lo > hi THEN 0
  ELSE IF lo = hi THEN ParseInt(Field(EntryLine(lo), 29, 10))
  ELSE SumEntryAmounts(lo, (lo + hi) \div 2) + SumEntryAmounts((lo + hi) \div 2 + 1, hi)

\* C6: the total-amount field of BatchControl and of FileControl equals the sum of the
\* amount fields of the EntryDetail records (each amount rounded to cents before it
\* is added).
C6_TotalsSumEntryAmounts ==
  Generated =>
    LET sum == SumEntryAmounts(1, Len(transactions))
    IN  /\ ParseInt(Field(BatchControlLine, 20, 12)) + ParseInt(Field(BatchControlLine, 32, 12)) = sum
        /\ ParseInt(Field(FileControlLine, 31, 12)) = sum
        /\ ParseInt(Field(FileControlLine, 43, 12)) = sum

\* a 10-digit field as a two-limb number
ParseBig(s) == <<ParseInt(Substring(s, 0, 2)), ParseInt(Substring(s, 2, 10))>>

\* the entry-hash field of the BatchControl record of the file of the given side
BatchHashField(type) == Field(generateBatchControl(config, transactions, type), 10, 10)

\* C7: the FileControl entry hash equals (D + C) mod 10,000,000,000, D being the
\* BatchControl entry hash of the debit file for the list and C that of the credit file.
C7_FileEntryHash ==
  Generated =>
    LET D == ParseBig(BatchHashField("DR"))
        C == ParseBig(BatchHashField("CR"))
        DplusC == BigAdd(<<D[1] + C[1], D[2]>>, C[2])
    IN  /\ BatchHashField(fileType) = Field(BatchControlLine, 10, 10)
        /\ Field(FileControlLine, 21, 10) = padLeft(BigToString(BigMod10e10(DplusC)), 10, "0")

\* a file whose debit and credit routing sums each pass 10,000,000,000
C7_Witness ==
  /\ Generated
  /\ BatchEntryHash(transactions, "DR")[1] >= 100
  /\ BatchEntryHash(transactions, "CR")[1] >= 100

\* n written with width digits, zeros first
ZeroPadded(n, width) == Rep("0", width - Len(ToString(n))) \o ToString(n)

\* the number of EntryDetail lines (record type 6) of the content generated last
EntryDetailLines == Cardinality({i \in 1..Len(fileLines) : Field(fileLines[i], 0, 1) = "6"})

\* C20: for a file of n transactions the BatchControl entry-count field is n in 6
\* digits, the FileControl entry-count field is n in 8 digits, each EntryDetail amount
\* field is the transaction's amount in cents in 10 digits (0000010000 for 100.00),
\* and both counts are the number of EntryDetail lines of the file.
C20_CountsAndAmounts ==
  Generated =>
    LET n == Len(transactions)
    IN  /\ Field(BatchControlLine, 4, 6) = ZeroPadded(n, 6)
        /\ Field(FileControlLine, 13, 8) = ZeroPadded(n, 8)
        /\ EntryDetailLines = n
        /\ \A i \in 1..n :
             /\ Field(EntryLine(i), 29, 10) = ZeroPadded((transactions[i].amount + 5) \div 10, 10)
             /\ transactions[i].amount = 100000 => Field(EntryLine(i), 29, 10) = "0000010000"

\* the file of the one transaction of 100.00, debit side
C20_Witness ==
  /\ Generated
  /\ transactions = <<MockTransaction>>
  /\ fileType = "DR"
  /\ Field(EntryLine(1), 29, 10) = "0000010000"
  /\ Field(BatchControlLine, 4, 6) = "000001"
  /\ Field(FileControlLine, 13, 8) = "00000001"

\* the record type of a line: its first character
RecordType(line) == Field(line, 0, 1)

\* the count, hash and total fields that tell of the entries are zero in both control
\* records of the file generated last
EntryFieldsZero ==
  /\ Field(BatchControlLine, 4, 6) = Rep("0", 6)
  /\ Field(BatchControlLine, 10, 10) = Rep("0", 10)
  /\ Field(BatchControlLine, 20, 12) = Rep("0", 12)
  /\ Field(BatchControlLine, 32, 12) = Rep("0", 12)
  /\ Field(FileControlLine, 13, 8) = Rep("0", 8)
  /\ Field(FileControlLine, 21, 10) = Rep("0", 10)
  /\ Field(FileControlLine, 31, 12) = Rep("0", 12)
  /\ Field(FileControlLine, 43, 12) = Rep("0", 12)

\* the file of an empty list has 10 lines: file header, batch header, batch control,
\* file control, 6 filler lines
EmptyFileShape ==
  /\ Len(fileLines) = 10
  /\ RecordType(fileLines[1]) = "1"
  /\ RecordType(fileLines[2]) = "5"
  /\ RecordType(fileLines[3]) = "8"
  /\ RecordType(fileLines[4]) = "9"
  /\ \A i \in 5..10 : fileLines[i] = FillerLine

\* C21 as stated: generating from an empty list yields the 10 lines, in which all
\* count and total fields are zero, the batch count and the block count of the
\* FileControl record included.
C21_AllCountsZero ==
  (Generated /\ transactions = <<>>) =>
    /\ EmptyFileShape
    /\ EntryFieldsZero
    /\ Field(FileControlLine, 1, 6) = Rep("0", 6)
    /\ Field(FileControlLine, 7, 6) = Rep("0", 6)

\* C21, amended: generating from an empty list yields the 10 lines, in which the entry
\* counts, the entry hashes and the totals are zero, while the batch count and the
\* block count of the FileControl record are 1 (the one batch, the one block of 10).
C21_EmptyFile ==
  (Generated /\ transactions = <<>>) =>
    /\ EmptyFileShape
    /\ EntryFieldsZero
    /\ Field(FileControlLine, 1, 6) = "000001"
    /\ Field(FileControlLine, 7, 6) = "000001"

\* a credit file generated from the empty list
C21_Witness == Generated /\ transactions = <<>> /\ fileType = "CR" /\ Len(fileLines) = 10

\* the fields of the side of the file of a transaction
SideOf(tx, type) ==
  IF type = "DR"
  THEN [ code |-> "27", routing |-> tx.drRoutingNumber, account |-> tx.drAccountNumber,
         name |-> tx.drName, id |-> tx.drId ]
  ELSE [ code |-> "22", routing |-> tx.crRoutingNumber, account |-> tx.crAccountNumber,
         name |-> tx.crName, id |-> tx.crId ]

\* the EntryDetail line carries the fields of the given side of tx: the value in its
\* field, spaces around it
CarriesSide(line, side) ==
  /\ Field(line, 1, 2) = side.code
  /\ Field(line, 3, 8) = SubSeq(side.routing, 1, 8)
  /\ Field(line, 11, 1) = SubSeq(side.routing, 9, 9)
  /\ Field(line, 12, 17) = Rep(" ", 17 - Len(side.account)) \o side.account
  /\ Field(line, 39, 15) = Rep(" ", 15 - Len(side.id)) \o side.id
  /\ Field(line, 54, 22) = side.name \o Rep(" ", 22 - Len(side.name))

\* C22: in a debit file every EntryDetail carries transaction code 27 and the routing
\* number, account number, name and identifier of the debit side, in a credit file
\* code 22 and those of the credit side; the check digit is the 9th digit of the
\* routing number used.
C22_SideFields ==
  Generated =>
    \A i \in 1..Len(transactions) :
      CarriesSide(EntryLine(i), SideOf(transactions[i], fileType))

\* a credit file of a transaction whose two sides differ in every field
C22_Witness ==
  /\ Generated
  /\ fileType = "CR"
  /\ Len(transactions) = 1
  /\ transactions[1] = MockTransaction
  /\ Field(EntryLine(1), 54, 10) = "Jane Smith"

\* C25: the block-count field of the FileControl record equals the number of blocks
\* of 10 lines of the generated file.
C25_BlockCountIsBlocks ==
  Generated =>
    Field(FileControlLine, 7, 6) = ZeroPadded(Len(fileLines) \div 10, 6)

\* C28: the lines are, in order, the FileHeader, the BatchHeader, one EntryDetail per
\* transaction, the i-th encoding the i-th transaction, the BatchControl, the
\* FileControl, and after it only filler lines.
C28_LineOrder ==
  Generated =>
    LET n == Len(transactions)
    IN  /\ RecordType(fileLines[1]) = "1"
        /\ RecordType(fileLines[2]) = "5"
        /\ \A i \in 1..n :
             /\ RecordType(EntryLine(i)) = "6"
             /\ \E rnd \in RandPool :
                  EntryLine(i) = generateEntryDetail(config, transactions[i], fileType, rnd)
        /\ RecordType(BatchControlLine) = "8"
        /\ RecordType(FileControlLine) = "9"
        /\ \A i \in (n + 5)..Len(fileLines) : fileLines[i] = FillerLine

\* a file of two different transactions
C28_Witness ==
  /\ Generated
  /\ Len(transactions) = 2
  /\ transactions[1] # transactions[2]
  /\ Field(EntryLine(1), 29, 10) # Field(EntryLine(2), 29, 10)

\* the trace number of an EntryDetail record
TraceNumber(line) == Field(line, 79, 15)

\* C29: within one generated file no two EntryDetail records carry the same trace
\* number.
C29_UniqueTraceNumbers ==
  Generated =>
    \A i, j \in 1..Len(transactions) :
      i # j => TraceNumber(EntryLine(i)) # TraceNumber(EntryLine(j))

\* the lines content.split('\n') yields for the text made of lines
SplitLines(lines) == IF lines = <<>> THEN <<"">> ELSE lines

\* C18: validateNACHAFile never throws and reports every violation present, not just the
\* first: fewer than 4 lines, first line not starting with 1, second line not starting
\* with 5, and one error per line other than the last whose length is not 94; isValid is
\* true exactly when the error list is empty.
C18_ValidateReportsAll ==
  (lastCall.op = "validateNACHAFile") =>
    LET ls == SplitLines(lastCall.lines)
        errors == lastCall.result.errors
        has(e) == \E k \in 1..Len(errors) : errors[k] = e
        badLines == {i \in 1..(Len(ls) - 1) : Len(ls[i]) # 94}
        short == IF Len(ls) < 4 THEN 1 ELSE 0
        first == IF ~StartsWith(ls[1], "1") THEN 1 ELSE 0
        second == IF Len(ls) > 1 /\ ~StartsWith(ls[2], "5") THEN 1 ELSE 0
    IN  /\ has(TooFewRecords) <=> short = 1
        /\ has(NotFileHeader) <=> first = 1
        /\ has(NotBatchHeader) <=> second = 1
        /\ \A i \in 1..Len(ls) : has(LineError(i - 1)) <=> i \in badLines
        /\ Len(errors) = short + first + second + Cardinality(badLines)
        /\ lastCall.result.isValid <=> errors = <<>>

\* a text with all four kinds of violation at once, all reported
C18_Witness ==
  /\ lastCall.op = "validateNACHAFile"
  /\ Len(lastCall.result.errors) >= 5
  /\ lastCall.result.errors[1] = TooFewRecords
  /\ lastCall.result.errors[2] = NotFileHeader
  /\ lastCall.result.errors[3] = NotBatchHeader

\* C17: content that does not begin with "FILE:" is never decrypted:
\* decryptFileContent rejects it at the format check, before the cipher is used,
\* validateNACHAFileComplete validates it as plain text with isEncrypted false, and
\* getNACHAFileContent returns it unchanged.
C17_PlainNeverDecrypted ==
  (lastCall.op \in {"decryptFileContent", "validateNACHAFileComplete", "getNACHAFileContent"}
     /\ ~StartsWith(lastCall.content, "FILE:"))
    => /\ lastCall.op = "decryptFileContent"
            => lastCall.result = FileDecryptionFailed("Invalid encrypted file format")
       /\ lastCall.op = "validateNACHAFileComplete"
            => /\ lastCall.result.isEncrypted = FALSE
               /\ lastCall.result.integrityValid = TRUE
               /\ lastCall.result.metadata = <<>>
               /\ lastCall.result.isValid = validateNACHAFile(lastCall.content).isValid
               /\ lastCall.result.errors = validateNACHAFile(lastCall.content).errors
       /\ lastCall.op = "getNACHAFileContent"
            => lastCall.result = [threw |-> FALSE, content |-> lastCall.content]

\* a service with a key is asked for the content of a text that resembles an envelope
C17_Witness ==
  /\ lastCall.op = "getNACHAFileContent"
  /\ lastCall.content = "file:0000:b9a9"
  /\ encryptionService # <<>>

(***************************************************************************)
(* Claims about the file-sequence counter                                  *)
(***************************************************************************)
\* the file-ID modifier of a file header
Modifier(header) == Field(header, 33, 1)

\* C13: when generation requests overlap on one service instance, the read of the
\* file-sequence modifier and its increment are serialized per request, so that no two
\* of the files generated carry the same modifier: two requests that both hold a
\* generated file awaiting its save hold different modifiers.
C13_NoDuplicateModifier ==
  \A r1 \in Requests, r2 \in Requests :
    (r1 # r2 /\ reqPc[r1] = "saving" /\ reqPc[r2] = "saving") =>
      Modifier(reqHeader[r1]) # Modifier(reqHeader[r2])

\* C14: the counter starts at 1 and after any number of incrementSequenceNumber calls
\* is an integer of 1..9, each call advancing it by 1 and from 9 to 1; the file-ID
\* modifier of a header is always one digit of 1..9 (the header keeps its 94 characters).
C14_SequenceCounter ==
  /\ fileSequenceNumber \in 1..9
  /\ fileSequenceNumber = (incrementCalls % 9) + 1
  /\ \A r \in Requests :
       reqHeader[r] # "" =>
         /\ Len(reqHeader[r]) = 94
         /\ \E d \in 1..9 : Modifier(reqHeader[r]) = ToString(d)

\* the counter has wrapped from 9 to 1 and a file was generated after the wrap
C14_Witness ==
  /\ incrementCalls >= 9
  /\ fileSequenceNumber = 1
  /\ \E r \in Requests : reqPc[r] = "saving" /\ Modifier(reqHeader[r]) = "1"

\* C15: generateNACHAFile and generateSecureNACHAFile leave the counter unchanged
\* whether they return or throw, and the file they return carries the modifier of the
\* counter, so that generation calls with no increment between them emit the same
\* modifier.
C15_GenerationKeepsCounter ==
  [][\A r \in Requests :
       (reqPc[r] = "idle" /\ reqPc'[r] # "idle") =>
         /\ fileSequenceNumber' = fileSequenceNumber
         /\ reqPc'[r] = "saving" => Modifier(reqHeader'[r]) = ToString(fileSequenceNumber)]_vars

\* two generations with no increment between them, after the counter has moved
C15_Witness ==
  /\ incrementCalls >= 1
  /\ \A r \in Requests :
       reqPc[r] = "saving" /\ Modifier(reqHeader[r]) = ToString(fileSequenceNumber)

(***************************************************************************)
(* Claims about EncryptionService                                          *)
(***************************************************************************)
\* C3: round trip: for every plaintext x, the empty string included, decrypting the
\* unmodified envelope of x under the same key returns content x and isValid = true.
C3_RoundTrip ==
  (outcome.called /\ envelope = sealed /\ key = DerivedKey) =>
    /\ ~outcome.result.threw
    /\ outcome.result.content = plaintext
    /\ outcome.result.isValid

\* C4: changing any character of the ciphertext part of a sealed envelope makes
\* decryptNACHAFile throw or return isValid = false; a modified envelope is never
\* returned with isValid = true.
C4_CorruptionDetected ==
  (outcome.called /\ envelope # sealed) =>
    (outcome.result.threw \/ ~outcome.result.isValid)

\* the opened envelope is malformed: it has not three parts, or a part holds a
\* character that is not a hexadecimal digit
Malformed(env) ==
  LET parts == Split(env, ":")
  IN  \/ Len(parts) # 3
      \/ \E i \in 2..Len(parts) : \E p \in 1..Len(parts[i]) :
            /\ HexVal(CharAt(parts[i], p)) < 0

\* C16: a decryption failure (malformed envelope, wrong key, undecryptable
\* ciphertext) makes decryptNACHAFile throw and an integrity mismatch makes it return
\* with isValid = false; validateNACHAFileComplete reports the first with the
\* decryption error and no metadata, the second with the integrity error and the
\* metadata, so that the two results differ.
C16_DistinctFailures ==
  lastCall.op = "validateNACHAFileComplete" =>
    LET opened == outcome.result
        validation == lastCall.result
    IN  /\ (key # DerivedKey \/ Malformed(envelope)) => opened.threw
        /\ opened.threw =>
              /\ validation = [ isValid |-> FALSE,
                                errors |-> <<DecryptionFailed(opened.message)>>,
                                isEncrypted |-> TRUE, integrityValid |-> FALSE ]
              /\ validation.errors # <<IntegrityCheckFailed>>
        /\ (~opened.threw /\ ~opened.isValid) =>
              validation = [ isValid |-> FALSE, errors |-> <<IntegrityCheckFailed>>,
                             isEncrypted |-> TRUE, metadata |-> opened.metadata,
                             integrityValid |-> FALSE ]

\* an envelope whose ciphertext was changed opens with a checksum that disagrees, and
\* is validated
C16_Witness ==
  /\ lastCall.op = "validateNACHAFileComplete"
  /\ envelope # sealed
  /\ ~outcome.result.threw
  /\ ~outcome.result.isValid

\* C19: a file returned by generateSecureNACHAFile has encrypted = true and content
\* that begins with "FILE:", and validateNACHAFileComplete of that content, unmodified
\* and under the same key, returns isEncrypted, integrityValid and isValid all true.
C19_SealedEndsValid ==
  nachaFile # <<>> =>
    /\ nachaFile[1].encrypted
    /\ StartsWith(nachaFile[1].content, "FILE:")
    /\ lastCall.op = "validateNACHAFileComplete"
         => /\ lastCall.result.isEncrypted
            /\ lastCall.result.integrityValid = TRUE
            /\ lastCall.result.isValid

\* C27: content recovered from an envelope whose checksum check failed is never
\* returned by getNACHAFileContent, and the download route does not serve it.
C27_MismatchNotServed ==
  (lastCall.op = "download" /\ ~outcome.result.threw /\ ~outcome.result.isValid)
    => lastCall.result.status # 200

(***************************************************************************)
(* Startup (backend/src/index.ts): the two services are constructed from   *)
(* process.env, then the server listens and files are generated.  A value  *)
(* that is not set is undefined: <<>>; a set value v is <<v>>.             *)
(***************************************************************************)
\* process.env.X for the values a test environment sets
EnvValue(e, n) ==
  IF ~e[n] THEN <<>>
  ELSE IF n = "ENCRYPTION_KEY" THEN <<"test-encryption-key">>
  ELSE IF n = "ACH_IMMEDIATE_DESTINATION" THEN <<MockConfig.immediateDestination>>
  ELSE IF n = "ACH_IMMEDIATE_ORIGIN" THEN <<MockConfig.immediateOrigin>>
  ELSE IF n = "ACH_COMPANY_NAME" THEN <<MockConfig.companyName>>
  ELSE <<MockConfig.companyId>>

\* the error a JavaScript engine throws for undefined.prop
TypeErrorReading(prop) ==
  Threw("Cannot read properties of undefined (reading '" \o prop \o "')")

\* crypto.scryptSync(password, 'salt', 32): a password that is undefined is rejected
scryptSync(password) ==
  IF password = <<>>
  THEN Threw("The \"password\" argument must be of type string or an instance of ArrayBuffer, Buffer, TypedArray, or DataView. Received undefined")
  ELSE [threw |-> FALSE, key |-> DerivedKey]

\* the NACHAConfig index.ts builds; a field whose value is undefined is left out
ConfigFromEnv(e) ==
  LET from == [ immediateDestination |-> "ACH_IMMEDIATE_DESTINATION",
                immediateOrigin |-> "ACH_IMMEDIATE_ORIGIN",
                companyName |-> "ACH_COMPANY_NAME",
                companyId |-> "ACH_COMPANY_ID",
                originatingDFI |-> "ACH_IMMEDIATE_ORIGIN" ]
  IN  [f \in {g \in DOMAIN from : e[from[g]]} |-> EnvValue(e, from[f])[1]]

\* the first read of an undefined configuration value that throws while the content
\* is generated ("": none): padLeft(immediateDestination) and padLeft(immediateOrigin)
\* of the file header, padRight(companyName) and originatingDFI.substring of the batch
\* header
MissingConfigError(cfg) ==
  IF "immediateDestination" \notin DOMAIN cfg \/ "immediateOrigin" \notin DOMAIN cfg
  THEN "padStart"
  ELSE IF "companyName" \notin DOMAIN cfg THEN "padEnd"
  ELSE IF "originatingDFI" \notin DOMAIN cfg THEN "substring"
  ELSE ""

\* the configuration as the records render it: companyDiscretionaryData || '' and an
\* undefined companyId as an element of the joined array are the empty string
Rendered(cfg) ==
  [f \in DOMAIN MockConfig |-> IF f \in DOMAIN cfg THEN cfg[f] ELSE ""]

\* generateSecureNACHAFile for a configuration whose values may be undefined
generateSecureNACHAFile_Config(cfg, svc, seqNo, now, txs, effDate, type, rnds, iv) ==
  IF svc = <<>>
  THEN generateSecureNACHAFile(cfg, svc, seqNo, now, txs, effDate, type, rnds, iv)
  ELSE IF MissingConfigError(cfg) # ""
  THEN TypeErrorReading(MissingConfigError(cfg))
  ELSE generateSecureNACHAFile(Rendered(cfg), svc, seqNo, now, txs, effDate, type, rnds, iv)

\* index.ts is loaded: nothing is constructed yet
InitBoot ==
  /\ processEnv \in [EnvNames -> BOOLEAN]
  /\ boot = "starting"
  /\ httpReq = NoRequest
  /\ dbStatus = <<>>
  /\ reqSelected = [r \in Requests |-> {}]
  /\ savedFiles = <<>>
  /\ key = <<>>
  /\ plaintext = ""
  /\ envelope = ""
  /\ sealed = ""
  /\ outcome = [called |-> FALSE]
  /\ NachaConstructed(<<>>, <<>>)
  /\ \E txs \in SecureTxLists, effDate \in EffectiveDates, type \in {"DR", "CR"} :
       NachaRequest(txs, effDate, type)
  /\ CalConstructed(FirstYear)

\* new EncryptionService(process.env.ENCRYPTION_KEY!); an error thrown here ends the
\* process
ConstructEncryptionService ==
  /\ boot = "starting"
  /\ LET derived == scryptSync(EnvValue(processEnv, "ENCRYPTION_KEY"))
     IN  IF derived.threw
         THEN /\ boot' = "crashed"
              /\ UNCHANGED key
         ELSE /\ boot' = "encryption"
              /\ key' = derived.key
  /\ UNCHANGED <<plaintext, sealed, envelope, outcome>>
  /\ UNCHANGED <<processEnv, httpReq, dbStatus, reqSelected, savedFiles>>
  /\ UNCHANGED <<calVars, nachaVars>>

\* new NACHAService({...}, encryptionService), then app.listen
ConstructNACHAService ==
  /\ boot = "encryption"
  /\ config' = ConfigFromEnv(processEnv)
  /\ encryptionService' = <<key>>
  /\ boot' = "listening"
  /\ UNCHANGED <<fileSequenceNumber, transactions, effectiveDate, fileType, fileLines>>
  /\ UNCHANGED <<seqVars, clientVars>>
  /\ UNCHANGED <<processEnv, httpReq, dbStatus, reqSelected, savedFiles>>
  /\ UNCHANGED <<calVars, encVars>>

\* the first generateSecureNACHAFile(transactions, effectiveDate, fileType) of the
\* listening process
GenerateAfterBoot ==
  /\ boot = "listening"
  /\ nachaFile = <<>>
  /\ lastCall.op = "none"
  /\ \E now \in NowPool, r \in RandPool, iv \in IvPool :
       LET rnds == [i \in 1..Len(transactions) |-> r]
           generated == generateSecureNACHAFile_Config(config, encryptionService,
                          fileSequenceNumber, now, transactions, effectiveDate, fileType,
                          rnds, iv)
       IN  /\ lastCall' = [op |-> "generateSecureNACHAFile", result |-> generated]
           /\ nachaFile' = IF generated.threw THEN <<>> ELSE <<generated.file>>
  /\ UNCHANGED <<config, fileSequenceNumber, transactions, effectiveDate, fileType, fileLines>>
  /\ UNCHANGED <<encryptionService, seqVars>>
  /\ UNCHANGED <<calVars, appVars, encVars>>

NextBoot == ConstructEncryptionService \/ ConstructNACHAService \/ GenerateAfterBoot

SpecBoot == InitBoot /\ [][NextBoot]_vars

\* C23: missing encryption or origination configuration is detected when the services
\* are constructed: the process listens only when every required value is set, and no
\* generation call of the listening process fails
C23_MissingConfigurationFatalAtStartup ==
  /\ boot = "listening" => \A n \in EnvNames : processEnv[n]
  /\ lastCall.op = "generateSecureNACHAFile" => ~lastCall.result.threw

(***************************************************************************)
(* The HTTP API: every route of index.ts and of the five routers, with the *)
(* middleware Express runs before its handler.  A handler that is reached  *)
(* performs its read or update; the status it chooses itself stands as 200.*)
(***************************************************************************)
\* router.use(authMiddleware) of the router, then the middleware named in the route
Open == <<"handler">>

Authenticated == <<"authMiddleware", "handler">>

Operators == <<"authMiddleware", "requireOperator", "handler">>

Endpoints ==
  << [method |-> "GET", path |-> "/health", chain |-> Open],
     [method |-> "POST", path |-> "/api/auth/register", chain |-> Open],
     [method |-> "POST", path |-> "/api/auth/login", chain |-> Open],
     [method |-> "GET", path |-> "/api/auth/profile", chain |-> Authenticated],
     [method |-> "PUT", path |-> "/api/auth/profile", chain |-> Authenticated],
     [method |-> "PUT", path |-> "/api/auth/change-password", chain |-> Authenticated],
     [method |-> "POST", path |-> "/api/transactions", chain |-> Operators],
     [method |-> "GET", path |-> "/api/transactions", chain |-> Authenticated],
     [method |-> "GET", path |-> "/api/transactions/:id", chain |-> Authenticated],
     [method |-> "PATCH", path |-> "/api/transactions/:id/status", chain |-> Operators],
     [method |-> "POST", path |-> "/api/nacha/generate", chain |-> Operators],
     [method |-> "GET", path |-> "/api/nacha/files", chain |-> Authenticated],
     [method |-> "GET", path |-> "/api/nacha/files/:id", chain |-> Authenticated],
     [method |-> "GET", path |-> "/api/nacha/files/:id/download", chain |-> Authenticated],
     [method |-> "POST", path |-> "/api/nacha/files/:id/validate", chain |-> Authenticated],
     [method |-> "PATCH", path |-> "/api/nacha/files/:id/transmitted", chain |-> Operators],
     [method |-> "GET", path |-> "/api/nacha/stats/generation", chain |-> Authenticated],
     [method |-> "GET", path |-> "/api/config", chain |-> Open],
     [method |-> "POST", path |-> "/api/config", chain |-> Open],
     [method |-> "GET", path |-> "/api/holidays", chain |-> Open],
     [method |-> "GET", path |-> "/api/holidays/check/:date", chain |-> Open],
     [method |-> "GET", path |-> "/api/holidays/next/:date", chain |-> Open] >>

\* UserRole
UserRoles == {"admin", "operator", "viewer"}

\* the Authorization header of a request: absent, 'Bearer ' with nothing after it, a
\* token jwt.verify rejects (forged or expired), or a token signed for a role
Tokens ==
  { [kind |-> "absent"], [kind |-> "empty"], [kind |-> "forged"], [kind |-> "expired"] }
    \cup { [kind |-> "signed", role |-> r] : r \in UserRoles }

\* a response that ends the request
Respond(req, status, error) ==
  [req EXCEPT !.stage = "responded", !.status = status, !.error = error]

\* next()
CallNext(req) == [req EXCEPT !.rest = Tail(req.rest)]

\* authMiddleware(req, res, next)
authMiddleware(req) ==
  IF req.token.kind \in {"absent", "empty"}
  THEN Respond(req, 401, "Access denied. No token provided.")
  ELSE IF req.token.kind # "signed"
  THEN Respond(req, 401, "Invalid token.")
  ELSE CallNext([req EXCEPT !.user = <<req.token.role>>])

\* requireRole(...roles)(req, res, next)
requireRole(roles, req) ==
  IF req.user = <<>>
  THEN Respond(req, 401, "Authentication required.")
  ELSE IF req.user[1] \notin roles
  THEN Respond(req, 403, "Insufficient permissions.")
  ELSE CallNext(req)

\* requireOperator
requireOperator(req) == requireRole({"admin", "operator"}, req)

InitApi ==
  /\ AppStarted
  /\ EncConstructed
  /\ CalConstructed(FirstYear)
  /\ NachaConstructed(MockConfig, <<DerivedKey>>)
  /\ NachaRequest(<<>>, 0, "DR")

\* a request arrives and is matched to its route; one request is followed
ReceiveRequest ==
  /\ boot = "listening"
  /\ httpReq = NoRequest
  /\ \E e \in 1..Len(Endpoints), t \in Tokens :
       httpReq' = [ stage |-> "routed", endpoint |-> e, token |-> t,
                    rest |-> Endpoints[e].chain, user |-> <<>>,
                    status |-> 0, error |-> "", performed |-> FALSE ]
  /\ UNCHANGED <<processEnv, boot, dbStatus, reqSelected, savedFiles>>
  /\ UNCHANGED <<calVars, nachaVars, encVars>>

\* the next function of the chain is authMiddleware
RunAuthMiddleware ==
  /\ httpReq.stage = "routed"
  /\ Head(httpReq.rest) = "authMiddleware"
  /\ httpReq' = authMiddleware(httpReq)
  /\ UNCHANGED <<processEnv, boot, dbStatus, reqSelected, savedFiles>>
  /\ UNCHANGED <<calVars, nachaVars, encVars>>

\* the next function of the chain is requireOperator
RunRequireOperator ==
  /\ httpReq.stage = "routed"
  /\ Head(httpReq.rest) = "requireOperator"
  /\ httpReq' = requireOperator(httpReq)
  /\ UNCHANGED <<processEnv, boot, dbStatus, reqSelected, savedFiles>>
  /\ UNCHANGED <<calVars, nachaVars, encVars>>

\* the next function of the chain is the route handler: the read or update is done
RunHandler ==
  /\ httpReq.stage = "routed"
  /\ Head(httpReq.rest) = "handler"
  /\ httpReq' = [Respond(httpReq, 200, "") EXCEPT !.performed = TRUE]
  /\ UNCHANGED <<processEnv, boot, dbStatus, reqSelected, savedFiles>>
  /\ UNCHANGED <<calVars, nachaVars, encVars>>

NextApi == ReceiveRequest \/ RunAuthMiddleware \/ RunRequireOperator \/ RunHandler

SpecApi == InitApi /\ [][NextApi]_vars

\* the endpoints the API documentation leaves open
PublicPaths == {"/health", "/api/auth/login", "/api/auth/register"}

\* C24: a request to any endpoint other than /health, /api/auth/login and
\* /api/auth/register that carries no valid token is answered 401 and the endpoint's
\* read or update is not performed
C24_AuthenticationRequired ==
  ( /\ httpReq.stage = "responded"
    /\ Endpoints[httpReq.endpoint].path \notin PublicPaths
    /\ httpReq.token.kind # "signed" )
  => httpReq.status = 401 /\ ~httpReq.performed

(***************************************************************************)
(* POST /generate and the tables: each request reads the pending           *)
(* transactions, saves a file of them and marks them processed, awaiting   *)
(* the database three times; at an await the other requests run.  The      *)
(* requests ask for the same effective date and file type.                 *)
(***************************************************************************)
MaxStored == 2

\* the rows of table transactions for the effective date asked for
StoredIds == 1..MaxStored

InitPending ==
  /\ processEnv = [n \in EnvNames |-> TRUE]
  /\ boot = "listening"
  /\ httpReq = NoRequest
  /\ dbStatus \in [StoredIds -> {"pending", "processed"}]
  /\ reqSelected = [r \in Requests |-> {}]
  /\ savedFiles = <<>>
  /\ NachaConstructed(MockConfig, <<DerivedKey>>)
  /\ NachaRequest(<<>>, Moment(2024, 8, 17), "DR")
  /\ CalConstructed(FirstYear)
  /\ EncConstructed

\* getTransactions(1, 1000, {effectiveDate, status: PENDING}) answers; none: 404;
\* otherwise the file is generated and createNACHAFile is awaited
ReadPending(r) ==
  /\ reqPc[r] = "idle"
  /\ LET found == {t \in StoredIds : dbStatus[t] = "pending"}
     IN  /\ reqSelected' = [reqSelected EXCEPT ![r] = found]
         /\ reqPc' = [reqPc EXCEPT ![r] = IF found = {} THEN "notfound" ELSE "saving"]
  /\ UNCHANGED <<config, fileSequenceNumber, transactions, effectiveDate, fileType, fileLines>>
  /\ UNCHANGED <<encryptionService, reqHeader, incrementCalls, clientVars>>
  /\ UNCHANGED <<processEnv, boot, httpReq, dbStatus, savedFiles>>
  /\ UNCHANGED <<calVars, encVars>>

\* createNACHAFile answers: the file is a row of nacha_files; the status updates are
\* awaited
SaveFile(r) ==
  /\ reqPc[r] = "saving"
  /\ savedFiles' = Append(savedFiles, reqSelected[r])
  /\ reqPc' = [reqPc EXCEPT ![r] = "updating"]
  /\ UNCHANGED <<config, fileSequenceNumber, transactions, effectiveDate, fileType, fileLines>>
  /\ UNCHANGED <<encryptionService, reqHeader, incrementCalls, clientVars>>
  /\ UNCHANGED <<processEnv, boot, httpReq, dbStatus, reqSelected>>
  /\ UNCHANGED <<calVars, encVars>>

\* createNACHAFile rejects: the catch answers 500
SaveFileFails(r) ==
  /\ reqPc[r] = "saving"
  /\ reqPc' = [reqPc EXCEPT ![r] = "failed"]
  /\ UNCHANGED <<config, fileSequenceNumber, transactions, effectiveDate, fileType, fileLines>>
  /\ UNCHANGED <<encryptionService, reqHeader, incrementCalls, clientVars>>
  /\ UNCHANGED appVars
  /\ UNCHANGED <<calVars, encVars>>

\* every updateTransactionStatus(tx.id, PROCESSED) answers: incrementSequenceNumber()
\* and the 201 response
UpdateStatuses(r) ==
  /\ reqPc[r] = "updating"
  /\ incrementCalls < MaxIncrements
  /\ dbStatus' = [t \in StoredIds |-> IF t \in reqSelected[r] THEN "processed" ELSE dbStatus[t]]
  /\ fileSequenceNumber' = incrementSequenceNumber(fileSequenceNumber)
  /\ incrementCalls' = incrementCalls + 1
  /\ reqPc' = [reqPc EXCEPT ![r] = "done"]
  /\ UNCHANGED <<config, transactions, effectiveDate, fileType, fileLines>>
  /\ UNCHANGED <<encryptionService, reqHeader, clientVars>>
  /\ UNCHANGED <<processEnv, boot, httpReq, reqSelected, savedFiles>>
  /\ UNCHANGED <<calVars, encVars>>

\* one updateTransactionStatus rejects, the others may have been done: the catch
\* answers 500
UpdateStatusesFails(r) ==
  /\ reqPc[r] = "updating"
  /\ \E updated \in SUBSET reqSelected[r] :
       /\ updated # reqSelected[r]
       /\ dbStatus' = [t \in StoredIds |-> IF t \in updated THEN "processed" ELSE dbStatus[t]]
  /\ reqPc' = [reqPc EXCEPT ![r] = "failed"]
  /\ UNCHANGED <<config, fileSequenceNumber, transactions, effectiveDate, fileType, fileLines>>
  /\ UNCHANGED <<encryptionService, reqHeader, incrementCalls, clientVars>>
  /\ UNCHANGED <<processEnv, boot, httpReq, reqSelected, savedFiles>>
  /\ UNCHANGED <<calVars, encVars>>

NextPending ==
  \E r \in Requests :
    \/ ReadPending(r)
    \/ SaveFile(r)
    \/ SaveFileFails(r)
    \/ UpdateStatuses(r)
    \/ UpdateStatusesFails(r)

SpecPending == InitPending /\ [][NextPending]_vars

\* C26: a pending transaction is written into at most one saved NACHA file: no two
\* saved files, of requests that overlap in time or not, hold the same transaction
C26_InAtMostOneFile ==
  \A i, j \in 1..Len(savedFiles) :
    i # j => savedFiles[i] \cap savedFiles[j] = {}

====
